---------------------------- MODULE Spec2Model ----------------------------
(***************************************************************************)
(* Vendor due diligence: the concurrent fetch-analyze-aggregate pipeline.  *)
(*                                                                         *)
(* Four application variants share the pipeline.  Three are thread based   *)
(* (Google_CSE/cse.py, SERP_API/script.py, SERP_API/production_vendor_dd.py)*)
(* and one runs on an asyncio event loop (Google_CSE/main.py).  The        *)
(* variable `variant` selects the program that is running.                 *)
(*                                                                         *)
(* URLs are the numbers 1..total_links: the de-duplicated list all_links.  *)
(***************************************************************************)
EXTENDS Integers, Sequences, FiniteSets, TLC

(***************************************************************************)
(* Bounds of the model.                                                    *)
(*                                                                         *)
(* MAX_THREADS is the batch size of the thread engine.  The sources set it *)
(* to 10 (cse.py:39, script.py:45, production_vendor_dd.py:40); the worker *)
(* loop only compares len(threads) with it, so the model is parametric in  *)
(* it and is explored at a scaled value, with MaxUrls > MAX_THREADS so     *)
(* that a second batch exists.                                             *)
(*                                                                         *)
(* max_concurrent_scrapes is AppConfig's cap of the asyncio engine         *)
(* (main.py:63 sets 8).  No code reads it; it is scaled the same way.      *)
(***************************************************************************)
MAX_THREADS == 2

max_concurrent_scrapes == 2

MaxUrls == 3

(* the longest context given to _calculate_risk_score, in phrases *)
MaxPhrases == 4

(* the longest page text given to analyze_risk_context, in phrases *)
MaxTextPhrases == 3

(* the number of calls of analyze_risk_context on one page text *)
MaxCalls == 2

(* the longest list risk_findings given to _calculate_overall_risk_score *)
MaxFindings == 6

(* the largest finding_count given to _determine_risk_level on its own *)
MaxFindingCount == 10

(* the longest text given to extract_company_mentions character by        *)
(* character                                                               *)
MaxTextLen == 3

(* the number of Run requests the GUI accepts *)
MaxRuns == 2

(* stop_after_attempt(3) of the @retry decorators *)
MaxAttempts == 3

(* MAX_GOOGLE_PAGES / AppConfig.max_google_pages *)
MAX_GOOGLE_PAGES == 3

(* RESULTS_PER_PAGE / AppConfig.results_per_page: the sources set 10; the  *)
(* search loop only passes it on to the provider                           *)
RESULTS_PER_PAGE == 2

(* AppConfig.min_confidence_score = 0.75, in hundredths *)
min_confidence_score == 75

Variants == {"cse", "script", "prod", "main"}

ThreadVariants == {"cse", "script", "prod"}

URLs == 1..MaxUrls

VARIABLES
    variant,        \* which program runs
    wpc,            \* position of _worker / conduct_due_diligence
    total_links,    \* len(all_links) after de-duplication
    idx,            \* number of links the spawn loop has taken
    threads,        \* the list `threads` of the current batch
    tpc,            \* position of analyze(url) / of the per-URL task
    attempts,       \* attempt number of the running fetch_page call
    exc,            \* the exception analyze's except clause has caught
    lock,           \* holder of `lock` (0: free)
    flagged_links,  \* list flagged_links
    clean_links,    \* list clean_links
    progress_count, \* nonlocal progress_count
    pdf_count,      \* pdf_generator.risk_count / clean_count (script.py)
    result_queue,   \* every item put on result_queue, in order
    report_made,    \* the report / PDF summary has been generated
    report_file,    \* production: the text _save_report has written
    ready,          \* asyncio: the event loop's FIFO of runnable tasks
    loop_busy,      \* asyncio: url whose blocking session.get holds the loop
    analysis_task,  \* asyncio: state of analyze_page(url) inside gather
    pdf_task,       \* asyncio: state of generate_pdf(url) inside gather
    risk_finding,   \* asyncio: value analyze_page returned for the url
    pdf_path,       \* asyncio: value generate_pdf returned for the url
    error_log,      \* asyncio: urls logged with "Analysis failed for"
    completed,      \* asyncio: finished tasks, in as_completed order
    consumed,       \* asyncio: results the as_completed loop has processed
    risk_findings,  \* asyncio: list risk_findings
    clean_pages,    \* asyncio: counter clean_pages
    pdf_files,      \* asyncio: list pdf_files
    profile,        \* asyncio: the VendorProfile returned, or NoProfile
    text,           \* analyzer: the page text, a list of phrases
    nlp,            \* analyzer: self.nlp is loaded
    set_order,      \* analyzer: this process's iteration order of set(variations)
    mentions,       \* analyzer: the list extract_company_mentions returned
    scores,         \* analyzer: risk_score of the contexts scanned so far
    finding,        \* analyzer: what the running call returns
    now,            \* analyzer: last value read from datetime.datetime.now()
    results,        \* analyzer: return values of the finished calls
    apc,            \* analyzer: position of analyze_risk_context
    threshold,      \* analyzer: config.min_confidence_score, in hundredths
    context,        \* scorer: the context string, a list of phrases
    risk_score,     \* scorer: value of _calculate_risk_score, in hundredths
    risk_category,  \* scorer: value of _classify_risk_category
    moved_from,     \* scorer: the context and its score before the keyword moved
    risk_list,      \* aggregator: argument risk_findings
    total_pages,    \* aggregator: argument total_pages
    finding_count,  \* aggregator: argument finding_count
    overall_risk_score, \* aggregator: value of _calculate_overall_risk_score
    risk_level,     \* aggregator: value of _determine_risk_level
    provider,       \* search: what the provider answers for each result page
    page,           \* search: number of result pages the loop has queried
    all_urls,       \* search: list all_urls / all_links before dict.fromkeys
    unique_urls,    \* search: the de-duplicated list
    spc,            \* search: position of the search loop
    is_running,     \* GUI: self.is_running
    runs,           \* GUI: number of workers _on_run / _start_analysis started
    gui_read,       \* GUI: items of result_queue the GUI thread has taken
    results_text,   \* GUI: the lines of the results_text widget
    page_text,      \* mentions: argument text, a list of characters
    name_chars,     \* mentions: argument company_name, a list of characters
    todo,           \* mentions: company_variations not yet iterated over
    cur_variation,  \* mentions: the loop variable `variation`
    scan_start,     \* mentions: the local `start`
    char_mentions,  \* mentions: the list `mentions`
    mpc             \* mentions: position of extract_company_mentions

threadVars == <<idx, threads, lock, flagged_links, clean_links,
                progress_count, pdf_count>>

asyncVars == <<ready, loop_busy, analysis_task, pdf_task, risk_finding,
               pdf_path, error_log, completed, consumed, risk_findings,
               clean_pages, pdf_files, profile>>

analyzerVars == <<text, nlp, set_order, mentions, scores, finding, now,
                  results, apc, threshold>>

scorerVars == <<context, risk_score, risk_category, moved_from>>

aggregatorVars == <<risk_list, total_pages, finding_count,
                    overall_risk_score, risk_level>>

searchVars == <<provider, page, all_urls, unique_urls, spc>>

guiVars == <<is_running, runs, gui_read, results_text>>

mentionVars == <<page_text, name_chars, todo, cur_variation, scan_start,
                 char_mentions, mpc>>

(* the state of the functions that are followed on their own, which the    *)
(* engines' steps leave alone                                              *)
pureVars == <<searchVars, analyzerVars, scorerVars, aggregatorVars, guiVars,
              mentionVars>>

engineVars == <<variant, wpc, total_links, tpc, attempts, exc, result_queue,
                report_made, report_file, threadVars, asyncVars, guiVars>>

vars == <<engineVars, pureVars>>

NoProfile == [made |-> FALSE]

NoFile == [written |-> FALSE, text |-> <<>>]

all_links == [i \in 1..total_links |-> i]

Msg(k, u) == [kind |-> k, url |-> u, num |-> 0, den |-> 0]

ProgressMsg(n, d) == [kind |-> "PROGRESS", url |-> 0, num |-> n, den |-> d]

put(q, item) == Append(q, item)

NoFinding == [is_risk |-> FALSE]

NoScore == [num |-> 0 - 1, den |-> 1]

NoMove == [moved |-> FALSE]

(* the search loop is not followed page by page *)
SearchIdle ==
    /\ provider = <<>>
    /\ page = 0
    /\ all_urls = <<>>
    /\ unique_urls = <<>>
    /\ spc = "idle"

(* no call of a pure function of main.py is under way *)
AnalyzerIdle ==
    /\ text = <<>>
    /\ nlp = FALSE
    /\ set_order = <<>>
    /\ mentions = <<>>
    /\ scores = <<>>
    /\ finding = NoFinding
    /\ now = 0
    /\ results = <<>>
    /\ apc = "idle"
    /\ threshold = min_confidence_score

ScorerIdle ==
    /\ context = <<>>
    /\ risk_score = 0 - 1
    /\ risk_category = "unset"
    /\ moved_from = NoMove

(* extract_company_mentions is not followed character by character *)
MentionIdle ==
    /\ page_text = <<>>
    /\ name_chars = <<>>
    /\ todo = {}
    /\ cur_variation = <<>>
    /\ scan_start = 0
    /\ char_mentions = <<>>
    /\ mpc = "idle"

AggregatorIdle ==
    /\ risk_list = <<>>
    /\ total_pages = 0
    /\ finding_count = 0
    /\ overall_risk_score = NoScore
    /\ risk_level = "unset"

(* the GUI thread has started the worker and taken nothing from the queue *)
GuiRunning ==
    /\ is_running = TRUE
    /\ runs = 1
    /\ gui_read = 0
    /\ results_text = <<>>

EngineInit ==
    /\ variant \in Variants
    /\ wpc = "search"
    /\ total_links = 0
    /\ idx = 0
    /\ threads = <<>>
    /\ tpc = [u \in URLs |-> "idle"]
    /\ attempts = [u \in URLs |-> 0]
    /\ exc = [u \in URLs |-> "none"]
    /\ lock = 0
    /\ flagged_links = <<>>
    /\ clean_links = <<>>
    /\ progress_count = 0
    /\ pdf_count = [risk |-> 0, clean |-> 0]
    /\ result_queue = <<>>
    /\ report_made = FALSE
    /\ report_file = NoFile
    /\ ready = <<>>
    /\ loop_busy = 0
    /\ analysis_task = [u \in URLs |-> "none"]
    /\ pdf_task = [u \in URLs |-> "none"]
    /\ risk_finding = [u \in URLs |-> "unset"]
    /\ pdf_path = [u \in URLs |-> "unset"]
    /\ error_log = {}
    /\ completed = <<>>
    /\ consumed = 0
    /\ risk_findings = <<>>
    /\ clean_pages = 0
    /\ pdf_files = <<>>
    /\ profile = NoProfile
    /\ GuiRunning

Init ==
    /\ EngineInit
    /\ SearchIdle /\ AnalyzerIdle /\ ScorerIdle /\ AggregatorIdle
    /\ MentionIdle

(***************************************************************************)
(* The search loop and de-duplication (list(dict.fromkeys(...))) yield n   *)
(* unique links.  The thread variants report the count on result_queue;    *)
(* main.py's search_company_risks returns the list to the engine.          *)
(* In the thread variants a search call can raise inside _worker           *)
(* (cse.py: build(...) is outside google_custom_search's try; the SERP     *)
(* variants' google_search has no try): _worker's `except Exception` then  *)
(* reports the failure and its finally clause follows.                     *)
(***************************************************************************)
AfterWorkerError_NoFinally == "done"

(* _worker's `finally: self.result_queue.put("DONE")` follows its except *)
AfterWorkerError == "finally"

Search ==
    /\ wpc = "search"
    /\ \E n \in 0..MaxUrls, raised \in BOOLEAN :
        IF variant = "main"
        THEN /\ total_links' = n
             /\ result_queue' = result_queue
             /\ wpc' = "enter"
        ELSE IF raised
        THEN /\ total_links' = total_links
             /\ result_queue' = put(result_queue, Msg("FAILED", 0))
             /\ wpc' = AfterWorkerError
        ELSE /\ total_links' = n
             /\ result_queue' = put(result_queue, Msg("COLLECTED", 0))
             /\ wpc' = "spawn"
    /\ UNCHANGED <<pureVars, variant, tpc, attempts, exc, report_made, report_file,
                   threadVars, asyncVars>>

(***************************************************************************)
(* for link in all_links: t.start(); threads.append(t);                    *)
(* if len(threads) >= MAX_THREADS: join them all.                          *)
(***************************************************************************)
BatchFull_OffByOne(ts) == Len(ts) > MAX_THREADS

BatchFull(ts) == Len(ts) >= MAX_THREADS

StartThread ==
    /\ variant \in ThreadVariants
    /\ wpc = "spawn"
    /\ idx < total_links
    /\ LET u == all_links[idx + 1] IN
        /\ tpc' = [tpc EXCEPT ![u] = "fetch"]
        /\ threads' = Append(threads, u)
        /\ idx' = idx + 1
        /\ wpc' = IF BatchFull(Append(threads, u)) THEN "join" ELSE "spawn"
    /\ UNCHANGED <<pureVars, variant, total_links, attempts, exc, result_queue, report_made, report_file,
                   lock, flagged_links, clean_links, progress_count, pdf_count,
                   asyncVars>>

SpawnEnd ==
    /\ variant \in ThreadVariants
    /\ wpc = "spawn"
    /\ idx = total_links
    /\ wpc' = "join_rest"
    /\ UNCHANGED <<pureVars, variant, total_links, tpc, attempts, exc, result_queue,
                   report_made, report_file, threadVars,
                   asyncVars>>

Joinable_NoWait(u) == TRUE

(* t.join() returns once the thread has terminated *)
Joinable(u) == tpc[u] = "dead"

JoinThread ==
    /\ variant \in ThreadVariants
    /\ wpc \in {"join", "join_rest"}
    /\ threads # <<>>
    /\ Joinable(Head(threads))
    /\ threads' = Tail(threads)
    /\ UNCHANGED <<pureVars, variant, wpc, total_links, tpc, attempts, exc, result_queue,
                   report_made, report_file, idx, lock, flagged_links, clean_links,
                   progress_count, pdf_count,
                   asyncVars>>

AllJoined_FirstOnly(ts) == Len(ts) < MAX_THREADS

(* `for t in threads: t.join()` has gone through the whole list *)
AllJoined(ts) == ts = <<>>

JoinEnd ==
    /\ variant \in ThreadVariants
    /\ wpc \in {"join", "join_rest"}
    /\ AllJoined(threads)
    /\ wpc' = IF wpc = "join" THEN "spawn" ELSE "summary"
    /\ UNCHANGED <<pureVars, variant, total_links, tpc, attempts, exc, result_queue,
                   report_made, report_file, threadVars,
                   asyncVars>>


(***************************************************************************)
(* fetch_page under @retry(stop=stop_after_attempt(3), wait=wait_fixed(2)):*)
(* one HTTP attempt per step.  An attempt that raises (timeout, connection *)
(* error, raise_for_status) is retried until the stop condition holds;     *)
(* then the RetryError reaches analyze's except clause.                    *)
(***************************************************************************)
stop_after_attempt_OneMore(n) == n > MaxAttempts

stop_after_attempt(n) == n >= MaxAttempts

FetchAttempt(u) ==
    /\ variant \in ThreadVariants
    /\ tpc[u] = "fetch"
    /\ \E ok \in BOOLEAN :
        IF ok
        THEN /\ tpc' = [tpc EXCEPT ![u] = "parse"]
             /\ attempts' = [attempts EXCEPT ![u] = 0]
             /\ exc' = exc
        ELSE IF stop_after_attempt(attempts[u] + 1)
        THEN /\ tpc' = [tpc EXCEPT ![u] = "except"]
             /\ attempts' = [attempts EXCEPT ![u] = 0]
             /\ exc' = [exc EXCEPT ![u] = "RetryError"]
        ELSE /\ tpc' = tpc
             /\ attempts' = [attempts EXCEPT ![u] = @ + 1]
             /\ exc' = exc
    /\ UNCHANGED <<pureVars, variant, wpc, total_links, result_queue, report_made, report_file,
                   threadVars,
                   asyncVars>>

(***************************************************************************)
(* BeautifulSoup(html), title, get_text, `company.lower() in text_content`.*)
(* soup.title.string may be None, so .strip() can raise.                   *)
(***************************************************************************)
Parse(u) ==
    /\ variant \in ThreadVariants
    /\ tpc[u] = "parse"
    /\ \E r \in {"risk", "clean", "except"} :
        /\ tpc' = [tpc EXCEPT ![u] = r]
        /\ exc' = [exc EXCEPT ![u] = IF r = "except" THEN "ParseError" ELSE @]
    /\ UNCHANGED <<pureVars, variant, wpc, total_links, attempts, result_queue,
                   report_made, report_file, threadVars,
                   asyncVars>>

LockFree_NoLock == TRUE

(* `with lock:` / lock.acquire() *)
LockFree == lock = 0

LockOnExit_Leak(u, raised) == IF raised THEN u ELSE 0

(* leaving a `with lock:` block releases the lock, also when the body raised *)
LockOnExit(u, raised) == 0

Acquire(u) ==
    /\ variant \in ThreadVariants
    /\ \/ /\ tpc[u] = "risk"
          /\ tpc' = [tpc EXCEPT ![u] = "risk_cs"]
       \/ /\ tpc[u] = "clean"
          /\ variant # "prod"
          /\ tpc' = [tpc EXCEPT ![u] = "clean_cs"]
       \/ /\ tpc[u] = "finally"
          /\ tpc' = [tpc EXCEPT ![u] = "progress_cs"]
    /\ LockFree
    /\ lock' = u
    /\ UNCHANGED <<pureVars, variant, wpc, total_links, attempts, exc, result_queue,
                   report_made, report_file, idx, threads, flagged_links, clean_links,
                   progress_count, pdf_count, asyncVars>>

(***************************************************************************)
(* flagged_links.append(...) under the lock; script.py also calls          *)
(* pdf_generator.add_risk_finding, which increments risk_count and then    *)
(* draws cells, and may raise there.                                       *)
(***************************************************************************)
RecordRisk(u) ==
    /\ variant \in ThreadVariants
    /\ tpc[u] = "risk_cs"
    /\ flagged_links' = Append(flagged_links, u)
    /\ IF variant = "script"
       THEN /\ pdf_count' = [pdf_count EXCEPT !.risk = @ + 1]
            /\ \E raised \in BOOLEAN :
                /\ tpc' = [tpc EXCEPT ![u] =
                             IF raised THEN "except" ELSE "risk_put"]
                /\ exc' = [exc EXCEPT ![u] = IF raised THEN "PdfError" ELSE @]
                /\ lock' = LockOnExit(u, raised)
       ELSE /\ pdf_count' = pdf_count
            /\ tpc' = [tpc EXCEPT ![u] = "risk_put"]
            /\ exc' = exc
            /\ lock' = LockOnExit(u, FALSE)
    /\ UNCHANGED <<pureVars, variant, wpc, total_links, attempts, result_queue,
                   report_made, report_file, idx, threads, clean_links, progress_count,
                   asyncVars>>

(* clean_links.append(title); script.py: pdf_generator.add_clean_finding *)
RecordClean(u) ==
    /\ variant \in {"cse", "script"}
    /\ tpc[u] = "clean_cs"
    /\ clean_links' = Append(clean_links, u)
    /\ IF variant = "script"
       THEN /\ pdf_count' = [pdf_count EXCEPT !.clean = @ + 1]
            /\ \E raised \in BOOLEAN :
                /\ tpc' = [tpc EXCEPT ![u] =
                             IF raised THEN "except" ELSE "clean_put"]
                /\ exc' = [exc EXCEPT ![u] = IF raised THEN "PdfError" ELSE @]
                /\ lock' = LockOnExit(u, raised)
       ELSE /\ pdf_count' = pdf_count
            /\ tpc' = [tpc EXCEPT ![u] = "clean_put"]
            /\ exc' = exc
            /\ lock' = LockOnExit(u, FALSE)
    /\ UNCHANGED <<pureVars, variant, wpc, total_links, attempts, result_queue,
                   report_made, report_file, idx, threads, flagged_links, progress_count,
                   asyncVars>>

(* result_queue.put of the per-URL message, outside the lock *)
PutRisk(u) ==
    /\ variant \in ThreadVariants
    /\ tpc[u] = "risk_put"
    /\ result_queue' = put(result_queue, Msg("RISK", u))
    /\ tpc' = [tpc EXCEPT ![u] = "finally"]
    /\ UNCHANGED <<pureVars, variant, wpc, total_links, attempts, exc, report_made, report_file,
                   threadVars, asyncVars>>

(* production_vendor_dd.py keeps no clean list and takes no lock here *)
PutClean(u) ==
    /\ variant \in ThreadVariants
    /\ tpc[u] = IF variant = "prod" THEN "clean" ELSE "clean_put"
    /\ result_queue' = put(result_queue, Msg("CLEAN", u))
    /\ tpc' = [tpc EXCEPT ![u] = "finally"]
    /\ UNCHANGED <<pureVars, variant, wpc, total_links, attempts, exc, report_made, report_file,
                   threadVars, asyncVars>>

ErrorRecord_Silent(u) == <<>>

(* except Exception as exc: result_queue.put("ERROR: url: exc") *)
ErrorRecord(u) == <<Msg("ERROR", u)>>

AfterError_NoFinally(u) == "dead"

(* the finally clause runs after the except clause *)
AfterError(u) == "finally"

PutError(u) ==
    /\ variant \in ThreadVariants
    /\ tpc[u] = "except"
    /\ result_queue' = result_queue \o ErrorRecord(u)
    /\ exc' = [exc EXCEPT ![u] = "none"]
    /\ tpc' = [tpc EXCEPT ![u] = AfterError(u)]
    /\ UNCHANGED <<pureVars, variant, wpc, total_links, attempts, report_made, report_file,
                   threadVars, asyncVars>>

(***************************************************************************)
(* finally: with lock: progress_count += 1;                                *)
(*          progress = progress_count / total_links if total_links else 1; *)
(*          result_queue.put(("PROGRESS", progress))                       *)
(* The fraction is kept as numerator and denominator.                      *)
(***************************************************************************)
ProgressValue_Stale(count, total) == ProgressMsg(count - 1, total)

ProgressValue(count, total) ==
    IF total # 0 THEN ProgressMsg(count, total) ELSE ProgressMsg(1, 1)

Progress(u) ==
    /\ variant \in ThreadVariants
    /\ tpc[u] = "progress_cs"
    /\ progress_count' = progress_count + 1
    /\ result_queue' = put(result_queue,
                           ProgressValue(progress_count + 1, total_links))
    /\ lock' = LockOnExit(u, FALSE)
    /\ tpc' = [tpc EXCEPT ![u] = "dead"]
    /\ UNCHANGED <<pureVars, variant, wpc, total_links, attempts, exc, report_made, report_file, idx,
                   threads, flagged_links, clean_links, pdf_count,
                   asyncVars>>


(***************************************************************************)
(* _worker after the joins: the summary lines.  script.py first calls      *)
(* pdf_generator.add_summary_section(), the PDF's summary page.            *)
(***************************************************************************)
Summary ==
    /\ variant \in ThreadVariants
    /\ wpc = "summary"
    /\ result_queue' = put(result_queue,
           [kind |-> "SUMMARY", url |-> 0,
            num |-> Len(flagged_links), den |-> Len(clean_links)])
    /\ report_made' = (variant = "script")
    /\ wpc' = "report"
    /\ UNCHANGED <<pureVars, report_file, variant, total_links, tpc, attempts, exc, threadVars,
                   asyncVars>>

(***************************************************************************)
(* cse.py: generate_text_report(...) then the file is written.  Its        *)
(* "Clean Results" line divides by total_links without a guard.            *)
(* script.py: pdf_generator.output(...); production: _save_report(...).    *)
(* A failure lands in `except Exception` of _worker.                       *)
(***************************************************************************)
ReportRaises == variant = "cse" /\ total_links = 0

(* production: text_content = self.results_text.get("1.0", "end"), written *)
(* to the file                                                             *)
_save_report == [written |-> TRUE, text |-> results_text]

Report ==
    /\ variant \in ThreadVariants
    /\ wpc = "report"
    /\ \E io_ok \in BOOLEAN :
        IF ReportRaises
        THEN /\ result_queue' = put(result_queue, Msg("FAILED", 0))
             /\ report_made' = report_made
             /\ report_file' = report_file
             /\ wpc' = AfterWorkerError
        ELSE /\ report_made' = TRUE
             /\ report_file' = IF variant = "prod" /\ io_ok
                                THEN _save_report ELSE report_file
             /\ result_queue' = put(result_queue,
                    Msg(IF io_ok THEN "SAVED" ELSE "FAILED", 0))
             /\ wpc' = IF io_ok THEN "finally" ELSE AfterWorkerError
    /\ UNCHANGED <<pureVars, variant, total_links, tpc, attempts, exc, threadVars,
                   asyncVars>>

(* finally: self.result_queue.put("DONE") *)
Done ==
    /\ variant \in ThreadVariants
    /\ wpc = "finally"
    /\ result_queue' = put(result_queue, Msg("DONE", 0))
    /\ wpc' = "done"
    /\ UNCHANGED <<pureVars, variant, total_links, tpc, attempts, exc, report_made, report_file, threadVars,
                   asyncVars>>

(***************************************************************************)
(* main.py, VendorDueDiligenceEngine.conduct_due_diligence on an asyncio   *)
(* event loop.  The loop runs one task at a time, in FIFO order of         *)
(* `ready`; a task gives up the loop only at an await.                     *)
(***************************************************************************)
Task(k, u) == [k |-> k, u |-> u]

LoopRuns(k, u) == loop_busy = 0 /\ ready # <<>> /\ Head(ready) = Task(k, u)

(* async with PDFArchiveManager(...): __aenter__ starts the browser *)
Enter ==
    /\ variant = "main"
    /\ wpc = "enter"
    /\ \E ok \in BOOLEAN : wpc' = IF ok THEN "create" ELSE "raised"
    /\ UNCHANGED <<pureVars, variant, total_links, tpc, attempts, exc, result_queue,
                   report_made, report_file, threadVars, asyncVars>>

(***************************************************************************)
(* for url in urls: tasks.append(asyncio.create_task(...)): one task per   *)
(* url, with no await in between and no limit on their number; then the    *)
(* as_completed loop awaits the first result.                              *)
(***************************************************************************)
TasksToCreate == 1..total_links

CreateTasks ==
    /\ variant = "main"
    /\ wpc = "create"
    /\ tpc' = [u \in URLs |-> IF u \in TasksToCreate THEN "created" ELSE tpc[u]]
    /\ ready' = [i \in 1..Cardinality(TasksToCreate) |-> Task("T", all_links[i])]
    /\ wpc' = IF total_links = 0 THEN "exit" ELSE "await"
    /\ UNCHANGED <<pureVars, variant, total_links, attempts, exc, result_queue,
                   report_made, report_file, threadVars, loop_busy, analysis_task,
                   pdf_task, risk_finding, pdf_path, error_log, completed,
                   consumed, risk_findings, clean_pages, pdf_files, profile>>

(***************************************************************************)
(* _analyze_and_archive up to `await asyncio.gather(analysis_task,         *)
(* pdf_task)`: gather schedules the two coroutines as tasks.               *)
(***************************************************************************)
RunTask(u) ==
    /\ variant = "main"
    /\ LoopRuns("T", u)
    /\ tpc[u] = "created"
    /\ tpc' = [tpc EXCEPT ![u] = "gather"]
    /\ analysis_task' = [analysis_task EXCEPT ![u] = "ready"]
    /\ pdf_task' = [pdf_task EXCEPT ![u] = "ready"]
    /\ ready' = Tail(ready) \o <<Task("A", u), Task("P", u)>>
    /\ UNCHANGED <<pureVars, variant, wpc, total_links, attempts, exc, result_queue,
                   report_made, report_file, threadVars, loop_busy, risk_finding, pdf_path,
                   error_log, completed, consumed, risk_findings, clean_pages,
                   pdf_files, profile>>

(***************************************************************************)
(* analyze_page under @retry(stop=stop_after_attempt(3), wait_fixed(2)).   *)
(* self.session.get is a blocking call: the event loop runs nothing else   *)
(* until it returns.                                                       *)
(***************************************************************************)
BeginAnalyze(u) ==
    /\ variant = "main"
    /\ LoopRuns("A", u)
    /\ analysis_task[u] = "ready"
    /\ analysis_task' = [analysis_task EXCEPT ![u] = "fetching"]
    /\ attempts' = [attempts EXCEPT ![u] = @ + 1]
    /\ loop_busy' = u
    /\ ready' = Tail(ready)
    /\ UNCHANGED <<pureVars, variant, wpc, total_links, tpc, exc, result_queue,
                   report_made, report_file, threadVars, pdf_task, risk_finding, pdf_path,
                   error_log, completed, consumed, risk_findings, clean_pages,
                   pdf_files, profile>>

(***************************************************************************)
(* The body of analyze_page is one try block whose `except Exception`      *)
(* logs and returns None: what the retry wrapper sees of a call.           *)
(*   outcome "risk":  analyze_risk_context returned a finding              *)
(*   outcome "clean": it returned None                                     *)
(*   outcome "error": the fetch or the parse raised                        *)
(***************************************************************************)
analyze_page(outcome) ==
    [raised |-> FALSE,
     value  |-> IF outcome = "risk" THEN "finding" ELSE "None"]

WakeGather(u, a, p) ==
    IF a = "done" /\ p = "done" THEN <<Task("T", u)>> ELSE <<>>

EndAnalyze(u) ==
    /\ variant = "main"
    /\ analysis_task[u] = "fetching"
    /\ loop_busy = u
    /\ loop_busy' = 0
    /\ \E outcome \in {"risk", "clean", "error"} :
        LET r == analyze_page(outcome) IN
        /\ error_log' = IF outcome = "error" THEN error_log \cup {u}
                        ELSE error_log
        /\ IF r.raised /\ ~stop_after_attempt(attempts[u])
           THEN /\ analysis_task' = [analysis_task EXCEPT ![u] = "ready"]
                /\ ready' = Append(ready, Task("A", u))
                /\ risk_finding' = risk_finding
           ELSE /\ analysis_task' = [analysis_task EXCEPT ![u] = "done"]
                /\ risk_finding' = [risk_finding EXCEPT ![u] =
                                      IF r.raised THEN "RetryError" ELSE r.value]
                /\ ready' = ready \o WakeGather(u, "done", pdf_task[u])
    /\ UNCHANGED <<pureVars, variant, wpc, total_links, tpc, attempts, exc, result_queue,
                   report_made, report_file, threadVars, pdf_task, pdf_path, completed,
                   consumed, risk_findings, clean_pages, pdf_files, profile>>

(***************************************************************************)
(* generate_pdf: awaits the browser (new_page, goto, pdf, close); its      *)
(* `except Exception` returns None.                                        *)
(***************************************************************************)
BeginPdf(u) ==
    /\ variant = "main"
    /\ LoopRuns("P", u)
    /\ pdf_task[u] = "ready"
    /\ pdf_task' = [pdf_task EXCEPT ![u] = "io"]
    /\ ready' = Tail(ready)
    /\ UNCHANGED <<pureVars, variant, wpc, total_links, tpc, attempts, exc, result_queue,
                   report_made, report_file, threadVars, loop_busy, analysis_task,
                   risk_finding, pdf_path, error_log, completed, consumed,
                   risk_findings, clean_pages, pdf_files, profile>>

EndPdf(u) ==
    /\ variant = "main"
    /\ loop_busy = 0
    /\ pdf_task[u] = "io"
    /\ pdf_task' = [pdf_task EXCEPT ![u] = "done"]
    /\ \E p \in {"path", "None"} : pdf_path' = [pdf_path EXCEPT ![u] = p]
    /\ ready' = ready \o WakeGather(u, analysis_task[u], "done")
    /\ UNCHANGED <<pureVars, variant, wpc, total_links, tpc, attempts, exc, result_queue,
                   report_made, report_file, threadVars, loop_busy, analysis_task,
                   risk_finding, error_log, completed, consumed,
                   risk_findings, clean_pages, pdf_files, profile>>

(***************************************************************************)
(* _analyze_and_archive returns (risk_finding, pdf_path), or None when     *)
(* gather raised; as_completed hands the finished task to the main loop.   *)
(***************************************************************************)
FinishTask(u) ==
    /\ variant = "main"
    /\ LoopRuns("T", u)
    /\ tpc[u] = "gather"
    /\ tpc' = [tpc EXCEPT ![u] = "done"]
    /\ completed' = Append(completed, u)
    /\ ready' = Append(Tail(ready), Task("M", 0))
    /\ UNCHANGED <<pureVars, variant, wpc, total_links, attempts, exc, result_queue,
                   report_made, report_file, threadVars, loop_busy, analysis_task,
                   pdf_task, risk_finding, pdf_path, error_log, consumed,
                   risk_findings, clean_pages, pdf_files, profile>>

TaskResult(u) ==
    IF risk_finding[u] = "RetryError" THEN "None"
    ELSE <<risk_finding[u], pdf_path[u]>>

(* Python truth value of the result: None is false, a 2-tuple is true *)
Truthy(result) == result # "None"

(***************************************************************************)
(* The body of `for i, task in enumerate(asyncio.as_completed(tasks))`.    *)
(***************************************************************************)
Consume ==
    /\ variant = "main"
    /\ wpc = "await"
    /\ LoopRuns("M", 0)
    /\ LET u == completed[consumed + 1]
           result == TaskResult(u)
       IN  /\ IF Truthy(result)
              THEN /\ risk_findings' = IF result[1] = "finding"
                                       THEN Append(risk_findings, u)
                                       ELSE risk_findings
                   /\ clean_pages' = IF result[1] = "finding"
                                     THEN clean_pages
                                     ELSE clean_pages + 1
                   /\ pdf_files' = IF result[2] = "path"
                                   THEN Append(pdf_files, u)
                                   ELSE pdf_files
              ELSE UNCHANGED <<risk_findings, clean_pages, pdf_files>>
    /\ consumed' = consumed + 1
    /\ ready' = Tail(ready)
    /\ wpc' = IF consumed + 1 = total_links THEN "exit" ELSE "await"
    /\ UNCHANGED <<pureVars, variant, total_links, tpc, attempts, exc, result_queue,
                   report_made, report_file, threadVars, loop_busy, analysis_task,
                   pdf_task, risk_finding, pdf_path, error_log, completed,
                   profile>>

(* __aexit__: browser.close(), playwright.stop() *)
Exit ==
    /\ variant = "main"
    /\ wpc = "exit"
    /\ loop_busy = 0
    /\ \E ok \in BOOLEAN : wpc' = IF ok THEN "metrics" ELSE "raised"
    /\ UNCHANGED <<pureVars, variant, total_links, tpc, attempts, exc, result_queue,
                   report_made, report_file, threadVars, asyncVars>>

(***************************************************************************)
(* main.py, the aggregator: _calculate_overall_risk_score and              *)
(* _determine_risk_level, called by conduct_due_diligence (Step 3).        *)
(*                                                                         *)
(* A finding is [confidence_score, risk_category] with the confidence in   *)
(* hundredths.  The float results are kept as exact fractions num / den;   *)
(* a division by zero yields ZeroDivisionError, which the caller does not  *)
(* catch.                                                                  *)
(***************************************************************************)
Min(a, b) == IF a <= b THEN a ELSE b

Max(a, b) == IF a >= b THEN a ELSE b

Rat(n, d) == [num |-> n, den |-> d]

ZeroDivisionError == Rat(0, 0)

RECURSIVE sum_confidence(_)
sum_confidence(findings) ==
    IF findings = <<>> THEN 0
    ELSE Head(findings).confidence_score
             + sum_confidence(Tail(findings))

high_severity_categories == {"Financial Crime", "Legal Issues", "Regulatory"}

raise_multiplier_Uncapped(m) == m + 1

(* severity_multiplier = min(severity_multiplier + 0.1, 1.5), in tenths *)
raise_multiplier(m) == Min(m + 1, 15)

(* severity_multiplier, in tenths: 1.0, then min(m + 0.1, 1.5) per finding *)
(* of a high-severity category                                             *)
RECURSIVE severity_multiplier(_)
severity_multiplier(findings) ==
    IF findings = <<>> THEN 10
    ELSE LET m == severity_multiplier(
                      SubSeq(findings, 1, Len(findings) - 1))
             f == findings[Len(findings)]
         IN  IF f.risk_category \in high_severity_categories
             THEN raise_multiplier(m) ELSE m

ZeroGuard_FindingsOnly(findings, pages) == findings = <<>>

(* if not risk_findings or total_pages == 0: return 0.0 *)
ZeroGuard(findings, pages) == findings = <<>> \/ pages = 0

(***************************************************************************)
(* avg_confidence = S / (100 n), frequency_factor = min(n / pages, 1/2),   *)
(* final_score = (0.6 avg_confidence + 0.4 frequency_factor) * m / 10      *)
(*             = (6 S pages + min(400 n n, 200 n pages)) m                 *)
(*               / (10000 n pages);  the value returned is min(., 1.0).    *)
(***************************************************************************)
_calculate_overall_risk_score(findings, pages) ==
    IF ZeroGuard(findings, pages) THEN Rat(0, 1)
    ELSE IF Len(findings) = 0 \/ pages = 0 THEN ZeroDivisionError
    ELSE LET n == Len(findings)
             S == sum_confidence(findings)
             m == severity_multiplier(findings)
             final_num == (6 * S * pages
                             + Min(400 * n * n, 200 * n * pages)) * m
             final_den == 10000 * n * pages
         IN  IF final_num >= final_den THEN Rat(1, 1)
             ELSE Rat(final_num, final_den)

AtLeastTenths_Strict(score, c) == 10 * score.num > c * score.den

(* score >= c / 10 *)
AtLeastTenths(score, c) == 10 * score.num >= c * score.den

_determine_risk_level(score, count) ==
    IF AtLeastTenths(score, 8) \/ count >= 10 THEN "HIGH RISK"
    ELSE IF AtLeastTenths(score, 6) \/ count >= 5 THEN "MEDIUM RISK"
    ELSE IF AtLeastTenths(score, 3) \/ count >= 2 THEN "LOW RISK"
    ELSE "MINIMAL RISK"

(* the confidences and categories the model's findings are drawn from *)
Confidences == {75, 80, 100}

FindingCategories == {"Financial Crime", "Operational"}

RiskFindings == [confidence_score : Confidences,
                 risk_category : FindingCategories]

PageFindings_Unfiltered ==
    [confidence_score : {20} \cup Confidences, risk_category : FindingCategories]

(* analyze_page returns a RiskFinding only                                 *)
(* `if best_risk_score >= config.min_confidence_score`                     *)
PageFindings ==
    {f \in [confidence_score : {20} \cup Confidences,
            risk_category : FindingCategories] :
        f.confidence_score >= min_confidence_score}

(* Steps 3 and 4: the risk metrics of the findings collected, each with the *)
(* confidence and category analyze_page gave it, and the VendorProfile      *)
MakeProfile ==
    /\ variant = "main"
    /\ wpc = "metrics"
    /\ \E fs \in [1..Len(risk_findings) -> PageFindings] :
          LET score == _calculate_overall_risk_score(fs, total_links)
          IN  profile' = [made |-> TRUE,
                          total_pages_analyzed |-> total_links,
                          risk_findings |-> risk_findings,
                          clean_pages |-> clean_pages,
                          pdf_files_generated |-> pdf_files,
                          overall_risk_score |-> score,
                          risk_level |-> _determine_risk_level(
                                             score, Len(risk_findings))]
    /\ wpc' = "returned"
    /\ UNCHANGED <<pureVars, variant, total_links, tpc, attempts, exc, result_queue,
                   report_made, report_file, threadVars, ready, loop_busy, analysis_task,
                   pdf_task, risk_finding, pdf_path, error_log, completed,
                   consumed, risk_findings, clean_pages, pdf_files>>

(***************************************************************************)
(* main.py, EnterpriseVendorDueDiligenceGUI._run_analysis_worker, after    *)
(* loop.run_until_complete(conduct_due_diligence(...)) has returned the    *)
(* profile or raised.                                                      *)
(***************************************************************************)
(* report_generator.generate_comprehensive_report(vendor_profile): builds  *)
(* the text and writes the file                                            *)
GenerateReport ==
    /\ variant = "main"
    /\ wpc = "returned"
    /\ \E io_ok \in BOOLEAN :
          /\ report_made' = io_ok
          /\ wpc' = IF io_ok THEN "put_completed" ELSE "raised"
    /\ UNCHANGED <<pureVars, report_file, variant, total_links, tpc, attempts, exc,
                   result_queue, threadVars, asyncVars>>

(* self.result_queue.put(("COMPLETED", vendor_profile, report_path)) *)
PutCompleted ==
    /\ variant = "main"
    /\ wpc = "put_completed"
    /\ result_queue' = put(result_queue,
           [kind |-> "COMPLETED", url |-> 0, num |-> 0, den |-> 0,
            profile |-> profile])
    /\ wpc' = "close"
    /\ UNCHANGED <<pureVars, variant, total_links, tpc, attempts, exc,
                   report_made, report_file, threadVars, asyncVars>>

AfterRunError_Swallowed == "close"

(* `except Exception as e:` of _run_analysis_worker *)
AfterRunError == "put_error"

(* conduct_due_diligence logs and re-raises; run_until_complete raises in  *)
(* the worker                                                              *)
RunRaised ==
    /\ variant = "main"
    /\ wpc = "raised"
    /\ wpc' = AfterRunError
    /\ UNCHANGED <<pureVars, variant, total_links, tpc, attempts, exc,
                   result_queue, report_made, report_file, threadVars, asyncVars>>

(* self.result_queue.put(("ERROR", str(e))) *)
PutRunError ==
    /\ variant = "main"
    /\ wpc = "put_error"
    /\ result_queue' = put(result_queue, Msg("ERROR", 0))
    /\ wpc' = "close"
    /\ UNCHANGED <<pureVars, variant, total_links, tpc, attempts, exc,
                   report_made, report_file, threadVars, asyncVars>>

(* finally: loop.close() *)
CloseLoop ==
    /\ variant = "main"
    /\ wpc = "close"
    /\ wpc' = "closed"
    /\ UNCHANGED <<pureVars, variant, total_links, tpc, attempts, exc,
                   result_queue, report_made, report_file, threadVars, asyncVars>>

AsyncStep ==
    \E u \in URLs :
        \/ RunTask(u)
        \/ BeginAnalyze(u)
        \/ EndAnalyze(u)
        \/ BeginPdf(u)
        \/ EndPdf(u)
        \/ FinishTask(u)

ThreadStep ==
    \E u \in URLs :
        \/ FetchAttempt(u)
        \/ Parse(u)
        \/ Acquire(u)
        \/ RecordRisk(u)
        \/ RecordClean(u)
        \/ PutRisk(u)
        \/ PutClean(u)
        \/ PutError(u)
        \/ Progress(u)

Next ==
    \/ Search
    \/ StartThread
    \/ SpawnEnd
    \/ JoinThread
    \/ JoinEnd
    \/ Summary
    \/ Report
    \/ Done
    \/ ThreadStep
    \/ Enter
    \/ CreateTasks
    \/ Consume
    \/ Exit
    \/ MakeProfile
    \/ GenerateReport
    \/ PutCompleted
    \/ RunRaised
    \/ PutRunError
    \/ CloseLoop
    \/ AsyncStep

Spec == Init /\ [][Next]_vars

(***************************************************************************)
(* Every thread is scheduled, every HTTP request returns or times out      *)
(* (timeout=HTTP_TIMEOUT), and the event loop keeps running ready tasks.   *)
(***************************************************************************)
FairSpec == Spec /\ WF_vars(Next)

(***************************************************************************)
(* The GUI thread: the Run handler (_on_run, main.py: _start_analysis) and *)
(* the periodic queue poll (_process_queue, main.py:                       *)
(* _start_queue_monitor).  The worker and its analyze threads run          *)
(* alongside, so every get_nowait() of the poll is a step of its own.      *)
(* result_queue holds the items put since the last Run request was         *)
(* accepted that the GUI had not taken by then; gui_read counts those the  *)
(* GUI has taken since.                                                    *)
(***************************************************************************)
GuiInit ==
    /\ variant \in Variants
    /\ wpc = "unstarted"
    /\ total_links = 0
    /\ idx = 0
    /\ threads = <<>>
    /\ tpc = [u \in URLs |-> "idle"]
    /\ attempts = [u \in URLs |-> 0]
    /\ exc = [u \in URLs |-> "none"]
    /\ lock = 0
    /\ flagged_links = <<>>
    /\ clean_links = <<>>
    /\ progress_count = 0
    /\ pdf_count = [risk |-> 0, clean |-> 0]
    /\ result_queue = <<>>
    /\ report_made = FALSE
    /\ report_file = NoFile
    /\ ready = <<>>
    /\ loop_busy = 0
    /\ analysis_task = [u \in URLs |-> "none"]
    /\ pdf_task = [u \in URLs |-> "none"]
    /\ risk_finding = [u \in URLs |-> "unset"]
    /\ pdf_path = [u \in URLs |-> "unset"]
    /\ error_log = {}
    /\ completed = <<>>
    /\ consumed = 0
    /\ risk_findings = <<>>
    /\ clean_pages = 0
    /\ pdf_files = <<>>
    /\ profile = NoProfile
    /\ is_running = FALSE
    /\ runs = 0
    /\ gui_read = 0
    /\ results_text = <<>>
    /\ SearchIdle /\ AnalyzerIdle /\ ScorerIdle /\ AggregatorIdle
    /\ MentionIdle

(* threading.Thread(target=self._worker, ...).start(): a new worker with   *)
(* its own locals (all_links, flagged_links, threads, lock, ...; main.py:  *)
(* a new event loop and the locals of conduct_due_diligence)               *)
StartWorker ==
    /\ wpc' = "search"
    /\ total_links' = 0
    /\ idx' = 0
    /\ threads' = <<>>
    /\ tpc' = [u \in URLs |-> "idle"]
    /\ attempts' = [u \in URLs |-> 0]
    /\ exc' = [u \in URLs |-> "none"]
    /\ lock' = 0
    /\ flagged_links' = <<>>
    /\ clean_links' = <<>>
    /\ progress_count' = 0
    /\ pdf_count' = [risk |-> 0, clean |-> 0]
    /\ report_made' = FALSE
    /\ report_file' = NoFile
    /\ ready' = <<>>
    /\ loop_busy' = 0
    /\ analysis_task' = [u \in URLs |-> "none"]
    /\ pdf_task' = [u \in URLs |-> "none"]
    /\ risk_finding' = [u \in URLs |-> "unset"]
    /\ pdf_path' = [u \in URLs |-> "unset"]
    /\ error_log' = {}
    /\ completed' = <<>>
    /\ consumed' = 0
    /\ risk_findings' = <<>>
    /\ clean_pages' = 0
    /\ pdf_files' = <<>>
    /\ profile' = NoProfile

RunBlocked_Never == FALSE

(* if self.is_running: return *)
RunBlocked == is_running

(* _clear_log() and the header lines _on_run writes with _log(...);        *)
(* main.py: _clear_results()                                               *)
header_text == IF variant = "main" THEN <<>> ELSE <<Msg("HEADER", 0)>>

(* the Run button's handler.  input_ok: a company name was entered and the *)
(* API credentials are set.                                                *)
OnRun ==
    \E input_ok \in BOOLEAN :
        IF RunBlocked \/ ~input_ok
        THEN UNCHANGED vars
        ELSE /\ runs < MaxRuns
             /\ is_running' = TRUE
             /\ runs' = runs + 1
             /\ results_text' = header_text
             /\ result_queue' = SubSeq(result_queue, gui_read + 1,
                                       Len(result_queue))
             /\ gui_read' = 0
             /\ StartWorker
             /\ UNCHANGED <<variant, searchVars, analyzerVars, scorerVars,
                            aggregatorVars, mentionVars>>

(* the item that ends a run for the GUI: "DONE"; main.py: a tuple whose    *)
(* first element is "COMPLETED" or "ERROR"                                 *)
TerminalKinds(v) == IF v = "main" THEN {"COMPLETED", "ERROR"} ELSE {"DONE"}

(* one `item = self.result_queue.get_nowait()` of the poll and the branch  *)
(* taken for the item                                                      *)
ProcessQueue ==
    /\ gui_read < Len(result_queue)
    /\ gui_read' = gui_read + 1
    /\ LET item == result_queue[gui_read + 1]
       IN  /\ is_running' = IF item.kind \in TerminalKinds(variant)
                            THEN FALSE ELSE is_running
           /\ results_text' =
                  IF item.kind = "PROGRESS"
                         \/ (variant # "main" /\ item.kind = "DONE")
                  THEN results_text
                  ELSE Append(results_text, item)
    /\ UNCHANGED <<variant, wpc, total_links, tpc, attempts, exc,
                   result_queue, report_made, report_file, threadVars,
                   asyncVars, runs, searchVars, analyzerVars, scorerVars,
                   aggregatorVars, mentionVars>>

GuiNext == Next \/ OnRun \/ ProcessQueue

GuiSpec == GuiInit /\ [][GuiNext]_vars


RiskLists == UNION {[1..n -> RiskFindings] : n \in 0..MaxFindings}

AggregatorInit ==
    /\ EngineInit
    /\ MentionIdle
    /\ variant = "main"
    /\ SearchIdle
    /\ AnalyzerIdle
    /\ ScorerIdle
    /\ risk_list \in RiskLists
    /\ total_pages \in 0..MaxUrls
    /\ finding_count = Len(risk_list)
    /\ overall_risk_score = NoScore
    /\ risk_level = "unset"

CalculateScore ==
    /\ overall_risk_score = NoScore
    /\ overall_risk_score' =
           _calculate_overall_risk_score(risk_list, total_pages)
    /\ UNCHANGED <<engineVars, mentionVars, searchVars, analyzerVars, scorerVars, risk_list,
                   total_pages, finding_count, risk_level>>

DetermineLevel ==
    /\ overall_risk_score \notin {NoScore, ZeroDivisionError}
    /\ risk_level = "unset"
    /\ risk_level' = _determine_risk_level(overall_risk_score, finding_count)
    /\ UNCHANGED <<engineVars, mentionVars, searchVars, analyzerVars, scorerVars, risk_list,
                   total_pages, finding_count, overall_risk_score>>

AggregatorNext == CalculateScore \/ DetermineLevel

AggregatorSpec == AggregatorInit /\ [][AggregatorNext]_vars

(***************************************************************************)
(* _determine_risk_level on its own: any score in [0, 1], in hundredths,   *)
(* and any count up to MaxFindingCount.                                    *)
(***************************************************************************)
LevelScores == {Rat(k, 100) : k \in 0..100}

LevelInit ==
    /\ EngineInit
    /\ MentionIdle
    /\ variant = "main"
    /\ SearchIdle
    /\ AnalyzerIdle
    /\ ScorerIdle
    /\ risk_list = <<>>
    /\ total_pages = 0
    /\ overall_risk_score \in LevelScores
    /\ finding_count \in 0..MaxFindingCount
    /\ risk_level = "unset"

LevelNext == DetermineLevel

LevelSpec == LevelInit /\ [][LevelNext]_vars

(***************************************************************************)
(* main.py, ContextualRiskAnalyzer: the keyword / proximity classifier.    *)
(*                                                                         *)
(* Company names, keywords and phrases are strings.  A page text is a list *)
(* of phrases, the text being their concatenation; a context is a slice    *)
(* text[lo:hi] of it.  str.find on the lower-cased text is computed from   *)
(* the occurrences of the needle inside each lower-cased phrase; with the  *)
(* phrases below no needle lies across the boundary of two phrases.        *)
(***************************************************************************)
ascii_uppercase == "ABCDEFGHIJKLMNOPQRSTUVWXYZ"

ascii_lowercase == "abcdefghijklmnopqrstuvwxyz"

char(s, i) == SubSeq(s, i, i)

(* stand-ins, in the strings of this module, for U+0130 (capital I with    *)
(* dot above) and for U+0307 (combining dot above): str.lower() turns the  *)
(* one character U+0130 into the two characters "i" U+0307                 *)
dotted_I == "#"

combining_dot == "~"

lower_char(c) ==
    IF c = dotted_I THEN "i" \o combining_dot
    ELSE IF \E i \in 1..Len(ascii_uppercase) : char(ascii_uppercase, i) = c
    THEN char(ascii_lowercase,
              CHOOSE i \in 1..Len(ascii_uppercase) :
                  char(ascii_uppercase, i) = c)
    ELSE c

(* str.lower() *)
RECURSIVE lower(_)
lower(s) ==
    IF Len(s) = 0 THEN ""
    ELSE IF Len(s) = 1 THEN lower_char(s)
    ELSE lower(SubSeq(s, 1, Len(s) \div 2))
             \o lower(SubSeq(s, Len(s) \div 2 + 1, Len(s)))

(* str.endswith(suffix) *)
endswith(s, suffix) ==
    /\ Len(suffix) <= Len(s)
    /\ SubSeq(s, Len(s) - Len(suffix) + 1, Len(s)) = suffix

(* str.replace(".", "") *)
RECURSIVE remove_periods(_)
remove_periods(s) ==
    IF Len(s) = 0 THEN ""
    ELSE IF Len(s) = 1 THEN (IF s = "." THEN "" ELSE s)
    ELSE remove_periods(SubSeq(s, 1, Len(s) \div 2))
             \o remove_periods(SubSeq(s, Len(s) \div 2 + 1, Len(s)))

Range(f) == {f[i] : i \in DOMAIN f}

(* the members of a finite set of numbers in increasing order *)
RECURSIVE sorted(_)
sorted(S) ==
    IF S = {} THEN <<>>
    ELSE LET m == CHOOSE x \in S : \A y \in S : x <= y
         IN  <<m>> \o sorted(S \ {m})

RECURSIVE concat(_)
concat(lists) ==
    IF lists = <<>> THEN <<>> ELSE Head(lists) \o concat(Tail(lists))

(* AppConfig.risk_keywords, set in __post_init__ *)
risk_keywords ==
    << "fraud", "fraudulent", "embezzlement", "money laundering",
       "tax evasion", "bribery", "kickback", "corruption", "insider trading",
       "ponzi scheme",
       "lawsuit", "litigation", "sued", "convicted", "guilty", "sentenced",
       "indicted", "charged", "violated", "breach", "penalty", "fine",
       "SEC violation", "regulatory action", "compliance failure",
       "sanctions", "OFAC", "investigation", "probe", "audit findings",
       "enforcement action",
       "data breach", "cybersecurity incident", "hack", "leaked", "exposed",
       "safety violation", "accident", "recall", "contamination",
       "defective",
       "scandal", "misconduct", "unethical", "discrimination", "harassment",
       "whistleblower", "cover-up", "conflict of interest", "nepotism" >>

(* [k.lower() for k in keywords] *)
RECURSIVE lowered(_)
lowered(keywords) ==
    IF keywords = <<>> THEN <<>>
    ELSE <<lower(Head(keywords))>> \o lowered(Tail(keywords))

(* keyword.lower() for keyword in config.risk_keywords *)
risk_keywords_lower == lowered(risk_keywords)

strong_indicators ==
    <<"convicted", "guilty", "sentenced", "fined", "violated", "breach">>

(* the dict `categories`, in insertion order *)
categories ==
    << [category |-> "Financial Crime",
        keywords |-> <<"fraud", "embezzlement", "money laundering",
                       "bribery", "corruption">>],
       [category |-> "Legal Issues",
        keywords |-> <<"lawsuit", "sued", "convicted", "guilty",
                       "litigation", "violation">>],
       [category |-> "Regulatory",
        keywords |-> <<"SEC", "regulatory", "compliance", "sanctions",
                       "OFAC", "enforcement">>],
       [category |-> "Operational",
        keywords |-> <<"breach", "hack", "safety", "recall", "accident",
                       "defective">>],
       [category |-> "Reputational",
        keywords |-> <<"scandal", "misconduct", "unethical",
                       "discrimination", "harassment">>] >>

(* AppConfig.context_window_size *)
context_window_size == 150

(* the company whose name is analysed *)
company_name == "Acme Corp"

suffixes == <<"Inc", "Corp", "Corporation", "LLC", "Ltd", "Limited", "Co">>

(* for suffix in suffixes: if base_name.endswith(" " + suffix): strip it  *)
(* and append the new base_name                                            *)
RECURSIVE base_names(_, _)
base_names(base_name, i) ==
    IF i > Len(suffixes) THEN <<>>
    ELSE IF endswith(base_name, " " \o suffixes[i])
    THEN LET b == SubSeq(base_name, 1,
                         Len(base_name) - Len(" " \o suffixes[i]))
         IN  <<b>> \o base_names(b, i + 1)
    ELSE base_names(base_name, i + 1)

(* the list `variations` before list(set(variations)) *)
variations_list(name) ==
    LET v1 == <<name>> \o base_names(name, 1)
        v2 == v1 \o [i \in 1..Len(v1) |-> remove_periods(v1[i])]
        NoPeriod(v) == ~endswith(v, ".")
        v3 == SelectSeq(v2, NoPeriod)
    IN  v2 \o [i \in 1..Len(v3) |-> v3[i] \o "."]

(* set(variations) *)
_generate_company_variations(name) == Range(variations_list(name))

(* list(set(...)): the orders in which a set of strings can be iterated;   *)
(* the order depends on the string hashes, which are randomised per        *)
(* process (PYTHONHASHSEED) and fixed within one                           *)
ListsOfSet(S) ==
    {f \in [1..Cardinality(S) -> S] : \A i, j \in DOMAIN f : f[i] = f[j] => i = j}

(* a run of n characters that belongs to no keyword and no name *)
RECURSIVE filler(_)
filler(n) ==
    IF n = 0 THEN ""
    ELSE IF n = 1 THEN "_"
    ELSE filler(n \div 2) \o filler(n - n \div 2)

(* phrases of the page texts given to analyze_risk_context *)
TextPhrases ==
    { "Acme Corp ", "Acme ", "was convicted of fraud ",
      "sentenced and violated ", filler(112) \o "found guilty " }

(* phrases of the contexts given to _calculate_risk_score and              *)
(* _classify_risk_category                                                 *)
ContextPhrases ==
    { "Acme Corp ", "was convicted of fraud ", "sentenced ", "violated ",
      "SEC ", "bribery lawsuit sued hack ", filler(60) }

Phrases == TextPhrases \cup ContextPhrases

(* every string the classifier searches for *)
Needles ==
    {lower(v) : v \in _generate_company_variations(company_name)}
        \cup {lower(company_name)}
        \cup Range(risk_keywords_lower)
        \cup Range(strong_indicators)
        \cup UNION {Range(categories[i].keywords) : i \in DOMAIN categories}
        \cup UNION {Range(lowered(categories[i].keywords)) :
                      i \in DOMAIN categories}

(* the positions (from 0) at which needle n occurs in phrase.lower() *)
PhraseFind ==
    [p \in Phrases |->
        LET lp == lower(p) IN
        [n \in Needles |->
            {i \in 0..(Len(lp) - Len(n)) : SubSeq(lp, i + 1, i + Len(n)) = n}]]

(* the position in the text at which phrase i starts *)
RECURSIVE offset(_, _)
offset(phrases, i) ==
    IF i <= 1 THEN 0 ELSE offset(phrases, i - 1) + Len(phrases[i - 1])

(* len(text) *)
text_len(phrases) == offset(phrases, Len(phrases) + 1)

(* the string text[lo:hi] *)
Slice(phrases, lo, hi) == [phrases |-> phrases, lo |-> lo, hi |-> hi]

Whole(phrases) == Slice(phrases, 0, text_len(phrases))

(* positions, relative to the start of string s, at which needle occurs in *)
(* s.lower()                                                               *)
occurrences(s, needle) ==
    LET in_text ==
            UNION {{offset(s.phrases, i) + k :
                      k \in PhraseFind[s.phrases[i]][needle]} :
                   i \in 1..Len(s.phrases)}
    IN  {q - s.lo :
           q \in {r \in in_text : r >= s.lo /\ r + Len(needle) <= s.hi}}

(* s.lower().find(needle, start) *)
find(s, needle, start) ==
    LET found == {q \in occurrences(s, needle) : q >= start}
    IN  IF found = {} THEN 0 - 1
        ELSE CHOOSE q \in found : \A r \in found : q <= r

(* needle in s.lower() *)
contains(s, needle) == occurrences(s, needle) # {}

proximity_weight_Swapped(distance) ==
    IF distance < 50 THEN 7
    ELSE IF distance < 100 THEN 10
    ELSE IF distance < 200 THEN 4
    ELSE 0

(* the increment of risk_indicators, in tenths *)
proximity_weight(distance) ==
    IF distance < 50 THEN 10
    ELSE IF distance < 100 THEN 7
    ELSE IF distance < 200 THEN 4
    ELSE 0

abs(x) == IF x < 0 THEN 0 - x ELSE x

(* the increment one keyword of the corpus gives to risk_indicators *)
keyword_increment(c, company_lower, keyword_lower) ==
    IF contains(c, keyword_lower)
    THEN LET company_pos == find(c, company_lower, 0)
             keyword_pos == find(c, keyword_lower, 0)
         IN  IF company_pos # 0 - 1 /\ keyword_pos # 0 - 1
             THEN proximity_weight(abs(company_pos - keyword_pos))
             ELSE 0
    ELSE 0

RECURSIVE risk_indicators(_, _, _)
risk_indicators(c, company_lower, i) ==
    IF i = 0 THEN 0
    ELSE risk_indicators(c, company_lower, i - 1)
             + keyword_increment(c, company_lower, risk_keywords_lower[i])

add_boost_Uncapped(b) == b + 20

(* base_score = min(base_score + 0.2, 1.0), in hundredths *)
add_boost(b) == Min(b + 20, 100)

RECURSIVE boost(_, _, _)
boost(c, base_score, i) ==
    IF i = 0 THEN base_score
    ELSE LET b == boost(c, base_score, i - 1)
         IN  IF contains(c, strong_indicators[i]) THEN add_boost(b)
             ELSE b

(***************************************************************************)
(* The confidence, in hundredths.  risk_indicators is in tenths, so        *)
(* risk_indicators / max(total_keywords * 0.1, 1) is                       *)
(* 100 * tenths / max(total_keywords, 10) hundredths: exactly 2 * tenths   *)
(* for the corpus of 50 keywords.                                          *)
(***************************************************************************)
_calculate_risk_score(c, name) ==
    LET company_lower == lower(name)
        total_keywords == Len(risk_keywords)
        base_score ==
            Min((100 * risk_indicators(c, company_lower, total_keywords))
                    \div Max(total_keywords, 10), 100)
    IN  boost(c, base_score, Len(strong_indicators))

(* any(keyword in context_lower for keyword in keywords): the keyword is   *)
(* searched as written in the table                                        *)
category_matches(c, i) ==
    \E k \in Range(categories[i].keywords) : contains(c, k)

_classify_risk_category(c) ==
    IF \E i \in DOMAIN categories : category_matches(c, i)
    THEN categories[CHOOSE i \in DOMAIN categories :
                        /\ category_matches(c, i)
                        /\ \A j \in 1..(i - 1) : ~category_matches(c, j)
                   ].category
    ELSE "General Risk"

(***************************************************************************)
(* _calculate_risk_score and _classify_risk_category applied to a context, *)
(* as analyze_risk_context applies them (l.286, l.288, l.299), and a       *)
(* second context that differs from the first in the place of one phrase.  *)
(***************************************************************************)
Contexts == UNION {[1..n -> ContextPhrases] : n \in 0..MaxPhrases}

ScorerInit ==
    /\ EngineInit
    /\ MentionIdle
    /\ variant = "main"
    /\ SearchIdle
    /\ AnalyzerIdle
    /\ AggregatorIdle
    /\ context \in Contexts
    /\ risk_score = 0 - 1
    /\ risk_category = "unset"
    /\ moved_from = NoMove

CalculateRiskScore ==
    /\ risk_score = 0 - 1
    /\ risk_score' = _calculate_risk_score(Whole(context), company_name)
    /\ UNCHANGED <<engineVars, mentionVars, searchVars, analyzerVars, aggregatorVars, context,
                   risk_category, moved_from>>

ClassifyRiskCategory ==
    /\ risk_score >= min_confidence_score
    /\ risk_category = "unset"
    /\ risk_category' = _classify_risk_category(Whole(context))
    /\ UNCHANGED <<engineVars, mentionVars, searchVars, analyzerVars, aggregatorVars, context,
                   risk_score, moved_from>>

(* the same content with the phrases i and i + 1 exchanged *)
MovePhrase(i) ==
    /\ moved_from = NoMove
    /\ risk_score # 0 - 1
    /\ i \in 1..(Len(context) - 1)
    /\ context[i] # context[i + 1]
    /\ moved_from' = [moved |-> TRUE, context |-> context,
                      risk_score |-> risk_score]
    /\ context' = [context EXCEPT ![i] = context[i + 1],
                                  ![i + 1] = context[i]]
    /\ risk_score' = 0 - 1
    /\ risk_category' = "unset"
    /\ UNCHANGED <<engineVars, mentionVars, searchVars, analyzerVars, aggregatorVars>>

ScorerNext ==
    \/ CalculateRiskScore
    \/ ClassifyRiskCategory
    \/ \E i \in 1..MaxPhrases : MovePhrase(i)

ScorerSpec == ScorerInit /\ [][ScorerNext]_vars

(***************************************************************************)
(* analyze_risk_context(text, company_name), main.py l.273-315.            *)
(*                                                                         *)
(* The call is made MaxCalls times on the same text.  The list             *)
(* list(set(variations)) is iterated in the order of the running process;  *)
(* a new process draws a new order.  Stanza's pipeline self.nlp is a       *)
(* function of the context it is given.                                    *)
(***************************************************************************)
Texts == UNION {[1..n -> TextPhrases] : n \in 0..MaxTextPhrases}

(* values of config.min_confidence_score: the default, and the cap 1.0 of  *)
(* the score                                                               *)
Thresholds == {min_confidence_score, 100}

(* the character text[p] *)
RECURSIVE text_char(_, _, _)
text_char(phrases, i, p) ==
    IF p < Len(phrases[i]) THEN char(phrases[i], p + 1)
    ELSE text_char(phrases, i + 1, p - Len(phrases[i]))

RECURSIVE lstrip(_)
lstrip(s) ==
    IF s.lo < s.hi /\ text_char(s.phrases, 1, s.lo) = " "
    THEN lstrip(Slice(s.phrases, s.lo + 1, s.hi))
    ELSE s

RECURSIVE rstrip(_)
rstrip(s) ==
    IF s.lo < s.hi /\ text_char(s.phrases, 1, s.hi - 1) = " "
    THEN rstrip(Slice(s.phrases, s.lo, s.hi - 1))
    ELSE s

(* str.strip() *)
strip(s) == rstrip(lstrip(s))

(* the mentions of one variation: the body of the for loop, l.239-251 *)
mentions_of(phrases, variation) ==
    LET found == sorted(occurrences(Whole(phrases), lower(variation)))
    IN  [k \in 1..Len(found) |->
            LET pos == found[k]
                context_start == Max(0, pos - context_window_size)
                context_end ==
                    Min(text_len(phrases),
                        pos + Len(variation) + context_window_size)
            IN  [start |-> pos, end |-> pos + Len(variation),
                 context |-> Slice(phrases, context_start, context_end)]]

(* company_variations is the list `order` *)
extract_company_mentions(phrases, order) ==
    concat([i \in 1..Len(order) |-> mentions_of(phrases, order[i])])

(* the entities Stanza finds in a context *)
entities(c) == [ents_of |-> c]

ClearsThreshold_Strict(score) == score > threshold

(* risk_score >= config.min_confidence_score *)
ClearsThreshold(score) == score >= threshold

after_match_KeepScanning == "scan"

(* `return RiskFinding(...)` inside the loop leaves the loop *)
after_match == "return"

AnalyzerInit ==
    /\ EngineInit
    /\ MentionIdle
    /\ variant = "main"
    /\ SearchIdle
    /\ ScorerIdle
    /\ AggregatorIdle
    /\ text \in Texts
    /\ nlp \in BOOLEAN
    /\ threshold \in Thresholds
    /\ set_order = <<>>
    /\ mentions = <<>>
    /\ scores = <<>>
    /\ finding = NoFinding
    /\ now = 0
    /\ results = <<>>
    /\ apc = "idle"

(* l.275-276: without a pipeline the call returns None *)
CallWithoutNlp ==
    /\ apc = "idle"
    /\ Len(results) < MaxCalls
    /\ ~nlp
    /\ finding' = NoFinding
    /\ apc' = "return"
    /\ UNCHANGED <<engineVars, mentionVars, searchVars, scorerVars, aggregatorVars, text, nlp,
                   set_order, mentions, scores, now, results, threshold>>

(* l.280-282: extract the mentions; none: return None *)
ExtractMentions ==
    /\ apc = "idle"
    /\ Len(results) < MaxCalls
    /\ nlp
    /\ \E order \in ListsOfSet(_generate_company_variations(company_name)) :
          /\ set_order = <<>> \/ set_order = order
          /\ set_order' = order
          /\ mentions' = extract_company_mentions(text, order)
    /\ scores' = <<>>
    /\ finding' = NoFinding
    /\ apc' = IF mentions' = <<>> THEN "return" ELSE "scan"
    /\ UNCHANGED <<engineVars, mentionVars, searchVars, scorerVars, aggregatorVars, text, nlp, now,
                   results, threshold>>

(* l.285-309: one turn of the loop over the mentions; l.311 when the list  *)
(* is exhausted                                                            *)
ScoreMention ==
    /\ apc = "scan"
    /\ Len(scores) < Len(mentions)
    /\ LET c == mentions[Len(scores) + 1].context
           score == _calculate_risk_score(c, company_name)
           last == Len(scores) + 1 = Len(mentions)
       IN  /\ scores' = Append(scores, score)
           /\ IF ClearsThreshold(score)
              THEN /\ \E t \in {now, now + 1} :
                        /\ now' = t
                        /\ finding' =
                             [is_risk |-> TRUE, url |-> "", title |-> "",
                              context |-> strip(c),
                              confidence_score |-> score,
                              risk_category |-> _classify_risk_category(c),
                              entities_found |-> entities(c),
                              timestamp |-> t]
                   /\ apc' = IF last THEN "return" ELSE after_match
              ELSE /\ apc' = IF last THEN "return" ELSE "scan"
                   /\ UNCHANGED <<finding, now>>
    /\ UNCHANGED <<engineVars, mentionVars, searchVars, scorerVars, aggregatorVars, text, nlp,
                   set_order, mentions, results, threshold>>

(* the call returns `finding` to its caller *)
Return ==
    /\ apc = "return"
    /\ results' = Append(results, finding)
    /\ mentions' = <<>>
    /\ scores' = <<>>
    /\ finding' = NoFinding
    /\ apc' = "tally"
    /\ UNCHANGED <<engineVars, mentionVars, searchVars, scorerVars, aggregatorVars, text, nlp,
                   set_order, now, threshold>>

is_finding_Inverted(r) == r = NoFinding

(* `if risk_finding:` a RiskFinding is true, None is false *)
is_finding(r) == r # NoFinding

(* analyze_page hands the value on (l.549-557), and conduct_due_diligence  *)
(* tallies it (l.749-756): the k-th call is the page of url k              *)
TallyPage ==
    /\ apc = "tally"
    /\ LET r == results[Len(results)]
       IN  IF is_finding(r)
           THEN /\ risk_findings' = Append(risk_findings, Len(results))
                /\ clean_pages' = clean_pages
           ELSE /\ risk_findings' = risk_findings
                /\ clean_pages' = clean_pages + 1
    /\ apc' = "idle"
    /\ UNCHANGED <<variant, wpc, total_links, tpc, attempts, exc,
                   result_queue, report_made, report_file, threadVars, ready, loop_busy,
                   analysis_task, pdf_task, risk_finding, pdf_path,
                   error_log, completed, consumed, pdf_files, profile,
                   searchVars, scorerVars, aggregatorVars, text, nlp,
                   set_order, mentions, scores, finding, now, results,
                   threshold, guiVars, mentionVars>>

(* the program is started again: string hashes, and with them the order    *)
(* of set(variations), are drawn anew                                      *)
NewProcess ==
    /\ apc = "idle"
    /\ set_order # <<>>
    /\ Len(results) < MaxCalls
    /\ set_order' = <<>>
    /\ UNCHANGED <<engineVars, mentionVars, searchVars, scorerVars, aggregatorVars, text, nlp,
                   mentions, scores, finding, now, results, apc, threshold>>

AnalyzerNext ==
    \/ CallWithoutNlp
    \/ ExtractMentions
    \/ ScoreMention
    \/ Return
    \/ TallyPage
    \/ NewProcess

AnalyzerSpec == AnalyzerInit /\ [][AnalyzerNext]_vars

(***************************************************************************)
(* The search loop, page by page: cse.py l.287-299 with                    *)
(* google_custom_search, script.py and production_vendor_dd.py with        *)
(* google_search, main.py search_company_risks.                            *)
(*                                                                         *)
(* The provider answers a page query with a list of items or with an       *)
(* exception.  cse.py builds the service in google_custom_search before    *)
(* its try block, so there an exception comes either from build(...) or    *)
(* from execute().                                                         *)
(***************************************************************************)
(* item.get('link') of the items of a result page; "" is an item without   *)
(* a link                                                                  *)
ItemLinks == {"http://x/a", "http://x/b", "http://x/B", ""}

ResultPages == UNION {[1..n -> ItemLinks] : n \in 0..RESULTS_PER_PAGE}

Answers(v) ==
    {[ok |-> TRUE, items |-> p, raised |-> "none"] : p \in ResultPages}
        \cup {[ok |-> FALSE, items |-> <<>>, raised |-> "execute"]}
        \cup (IF v = "cse"
              THEN {[ok |-> FALSE, items |-> <<>>, raised |-> "build"]}
              ELSE {})

HasLink(link) == link # ""

(* [item.get('link') for item in items if item.get('link')] *)
links(items) == SelectSeq(items, HasLink)

dedup_LastSeen(list) ==
    LET keep == {i \in 1..Len(list) :
                   \A j \in (i + 1)..Len(list) : list[j] # list[i]}
    IN  [k \in 1..Cardinality(keep) |-> list[sorted(keep)[k]]]

(* list(dict.fromkeys(list)): the first occurrence of each key, in order *)
dedup(list) ==
    LET keep == {i \in 1..Len(list) :
                   \A j \in 1..(i - 1) : list[j] # list[i]}
    IN  [k \in 1..Cardinality(keep) |-> list[sorted(keep)[k]]]

SearchInit ==
    /\ EngineInit
    /\ MentionIdle
    /\ AnalyzerIdle
    /\ ScorerIdle
    /\ AggregatorIdle
    /\ provider \in [1..MAX_GOOGLE_PAGES -> Answers(variant)]
    /\ page = 0
    /\ all_urls = <<>>
    /\ unique_urls = <<>>
    /\ spc = "loop"

(* one turn of `for page in range(MAX_GOOGLE_PAGES)` *)
SearchPage ==
    /\ spc = "loop"
    /\ page < MAX_GOOGLE_PAGES
    /\ page' = page + 1
    /\ LET answer == provider[page + 1]
           more == IF page + 1 < MAX_GOOGLE_PAGES THEN "loop" ELSE "dedup"
       IN  IF answer.ok
           THEN /\ all_urls' = all_urls \o links(answer.items)
                /\ spc' = more
           ELSE /\ all_urls' = all_urls
                /\ spc' =
                     CASE variant = "cse" /\ answer.raised = "execute" -> more
                       [] variant = "cse" /\ answer.raised = "build" -> "failed"
                       [] variant \in {"script", "prod"} -> "failed"
                       [] variant = "main" -> "dedup"
    /\ UNCHANGED <<engineVars, mentionVars, analyzerVars, scorerVars, aggregatorVars,
                   provider, unique_urls>>

(* all_links = list(dict.fromkeys(all_links)); the list goes to analysis *)
Deduplicate ==
    /\ spc = "dedup"
    /\ unique_urls' = dedup(all_urls)
    /\ spc' = "analysis"
    /\ UNCHANGED <<engineVars, mentionVars, analyzerVars, scorerVars, aggregatorVars,
                   provider, page, all_urls>>

SearchNext == SearchPage \/ Deduplicate

SearchSpec == SearchInit /\ [][SearchNext]_vars

(***************************************************************************)
(* main.py, ContextualRiskAnalyzer.extract_company_mentions, followed      *)
(* iteration by iteration on strings of characters.                        *)
(***************************************************************************)
Alphabet == {"a", "A", ".", dotted_I}

RECURSIVE StringsUpTo(_)
StringsUpTo(n) ==
    IF n = 0 THEN {""}
    ELSE LET S == StringsUpTo(n - 1)
         IN  S \cup {str \o c : str \in S, c \in Alphabet}

CompanyNames == {"a", "aa", ".", "A.", "a Co", dotted_I}

(* str.find(needle, from): the lowest index at or after `from` at which    *)
(* needle occurs, -1 if there is none                                      *)
str_find(s, needle, from) ==
    LET hits == {q \in from..(Len(s) - Len(needle)) :
                    SubSeq(s, q + 1, q + Len(needle)) = needle}
    IN  IF hits = {} THEN 0 - 1
        ELSE CHOOSE q \in hits : \A r \in hits : q <= r

(* s[a:b] for 0 <= a and 0 <= b <= len(s) *)
slice(s, a, b) == IF a >= b THEN "" ELSE SubSeq(s, a + 1, b)

MentionInit ==
    /\ EngineInit
    /\ variant = "main"
    /\ SearchIdle /\ AnalyzerIdle /\ ScorerIdle /\ AggregatorIdle
    /\ page_text \in StringsUpTo(MaxTextLen)
    /\ name_chars \in CompanyNames
    /\ todo = _generate_company_variations(name_chars)
    /\ cur_variation = ""
    /\ scan_start = 0
    /\ char_mentions = <<>>
    /\ mpc = "for"

(* for variation in company_variations: start = 0 *)
NextVariation ==
    /\ mpc = "for"
    /\ \E v \in todo :
          /\ cur_variation' = v
          /\ todo' = todo \ {v}
    /\ scan_start' = 0
    /\ mpc' = "while"
    /\ UNCHANGED <<engineVars, searchVars, analyzerVars, scorerVars,
                   aggregatorVars, page_text, name_chars, char_mentions>>

(* one iteration of `while True:` *)
FindMention ==
    /\ mpc = "while"
    /\ LET text_lower == lower(page_text)
           pos == str_find(text_lower, lower(cur_variation), scan_start)
           context_start == Max(0, pos - context_window_size)
           context_end == Min(Len(page_text),
                              pos + Len(cur_variation) + context_window_size)
       IN  IF pos = 0 - 1
           THEN /\ mpc' = "for"
                /\ UNCHANGED <<char_mentions, scan_start>>
           ELSE /\ char_mentions' = Append(char_mentions,
                       [start |-> pos, end |-> pos + Len(cur_variation),
                        context |-> slice(page_text, context_start,
                                          context_end)])
                /\ scan_start' = pos + 1
                /\ mpc' = mpc
    /\ UNCHANGED <<engineVars, searchVars, analyzerVars, scorerVars,
                   aggregatorVars, page_text, name_chars, todo,
                   cur_variation>>

(* return mentions *)
ReturnMentions ==
    /\ mpc = "for"
    /\ todo = {}
    /\ mpc' = "return"
    /\ UNCHANGED <<engineVars, searchVars, analyzerVars, scorerVars,
                   aggregatorVars, page_text, name_chars, todo,
                   cur_variation, scan_start, char_mentions>>

MentionNext == NextVariation \/ FindMention \/ ReturnMentions

MentionSpec == MentionInit /\ [][MentionNext]_vars

(***************************************************************************)
(* Properties.                                                             *)
(***************************************************************************)
Submitted == 1..total_links

(* analyze threads started and not yet terminated *)
ThreadsAlive == {u \in URLs : tpc[u] \notin {"idle", "dead"}}

(* per-URL pipelines of the asyncio engine started and not yet completed *)
PipelinesInFlight == {u \in URLs : tpc[u] = "gather"}

Count(q, kind, u) ==
    Cardinality({i \in 1..Len(q) : q[i].kind = kind /\ q[i].url = u})

Occurrences(list, u) == Cardinality({i \in 1..Len(list) : list[i] = u})

IsProgress(m) == m.kind = "PROGRESS"

ProgressEvents == SelectSeq(result_queue, IsProgress)

(* _worker has passed the joins *)
AfterJoins == wpc \in {"summary", "report", "finally", "done"}

(* C1: in the thread-based engine the number of analyze threads started   *)
(* and not yet terminated never exceeds MAX_THREADS.                       *)
C1_ThreadBound ==
    variant \in ThreadVariants => Cardinality(ThreadsAlive) <= MAX_THREADS

C1_Witness ==
    /\ variant \in ThreadVariants
    /\ total_links > MAX_THREADS
    /\ Cardinality(ThreadsAlive) = MAX_THREADS
    /\ idx < total_links

(* C2: in the asyncio engine at most max_concurrent_scrapes per-URL       *)
(* pipelines are in flight at any instant.                                 *)
C2_AsyncBound ==
    variant = "main" =>
        Cardinality(PipelinesInFlight) <= max_concurrent_scrapes

HasOutcome(u) ==
    Count(result_queue, "RISK", u) + Count(result_queue, "CLEAN", u)
        + Count(result_queue, "ERROR", u) >= 1

Enqueued(kind) == \E i \in 1..Len(result_queue) : result_queue[i].kind = kind

RunComplete ==
    /\ wpc = "done"
    /\ \A u \in Submitted : HasOutcome(u) /\ tpc[u] = "dead"
    /\ Enqueued("SUMMARY")
    /\ Enqueued("DONE")

ErrorRecords ==
    Cardinality({i \in 1..Len(result_queue) : result_queue[i].kind = "ERROR"})

(* C4: in cse.py, when _worker reaches the summary every submitted URL is *)
(* in exactly one of flagged_links, clean_links or the ERROR records, so  *)
(* the three counts add up to total_links.                                 *)
C4_ExactlyOneOutcome ==
    (variant = "cse" /\ AfterJoins) =>
        /\ \A u \in Submitted :
              Occurrences(flagged_links, u) + Occurrences(clean_links, u)
                  + Count(result_queue, "ERROR", u) = 1
        /\ Len(flagged_links) + Len(clean_links) + ErrorRecords = total_links

C4_Witness ==
    /\ variant = "cse"
    /\ wpc = "summary"
    /\ Len(flagged_links) >= 1
    /\ Len(clean_links) >= 1
    /\ ErrorRecords >= 1

(* C5: in the returned profile a URL whose fetch or extraction failed is  *)
(* counted in total_pages_analyzed and in neither risk_findings nor       *)
(* clean_pages.                                                            *)
C5_FailedNotTallied ==
    profile.made =>
        /\ profile.total_pages_analyzed = total_links
        /\ Len(profile.risk_findings) + profile.clean_pages
               = total_links - Cardinality(error_log)

(* C6: the PROGRESS events of a run of the thread-based engine carry a    *)
(* non-decreasing completed count over the fixed total total_links, and   *)
(* once the threads are joined the last one of a run with at least one    *)
(* URL has completed = total.                                              *)
C6_ProgressMonotone ==
    variant \in ThreadVariants =>
        LET pe == ProgressEvents IN
        /\ \A i \in 1..Len(pe) : pe[i].den = total_links
        /\ \A i, j \in 1..Len(pe) :
              i <= j => pe[i].num * pe[j].den <= pe[j].num * pe[i].den
        /\ (AfterJoins /\ total_links >= 1) =>
              /\ pe # <<>>
              /\ pe[Len(pe)].num = pe[Len(pe)].den

C6_Witness ==
    /\ variant \in ThreadVariants
    /\ wpc = "done"
    /\ total_links > MAX_THREADS
    /\ Len(ProgressEvents) = total_links

(* C7: the thread-based engine emits exactly one PROGRESS event per        *)
(* submitted URL, whether its analysis succeeded or failed: each thread    *)
(* emits one as it terminates, and at the end of the run their number is   *)
(* total_links.                                                            *)
C7_OneProgressPerUrl ==
    variant \in ThreadVariants =>
        /\ Len(ProgressEvents) = Cardinality({u \in URLs : tpc[u] = "dead"})
        /\ AfterJoins => Len(ProgressEvents) = total_links

C7_Witness ==
    /\ variant \in ThreadVariants
    /\ AfterJoins
    /\ ErrorRecords >= 1
    /\ \E v \in Submitted : Count(result_queue, "ERROR", v) = 0
    /\ Len(ProgressEvents) = total_links

(* C8: fetch_page of the thread-based variants makes at most 3 attempts:  *)
(* an attempt is at most the third, a failed attempt is retried only when  *)
(* it was the first or second and ends in the RetryError only when it was  *)
(* the third, nothing is attempted after fetch_page has returned, and the  *)
(* error becomes an ERROR record for the url.                              *)
C8_ThreeAttempts ==
    [][\A u \in URLs : variant \in ThreadVariants =>
          /\ (tpc[u] = "fetch" /\ (tpc'[u] # "fetch"
                                     \/ attempts'[u] # attempts[u]))
                => attempts[u] + 1 <= 3
          /\ (tpc[u] = "fetch" /\ tpc'[u] = "fetch"
                               /\ attempts'[u] # attempts[u])
                => attempts'[u] = attempts[u] + 1 /\ attempts'[u] < 3
          /\ (tpc[u] = "fetch" /\ tpc'[u] = "except")
                => attempts[u] + 1 = 3 /\ exc'[u] = "RetryError"
          /\ tpc[u] \notin {"idle", "fetch"} => tpc'[u] # "fetch"
          /\ (tpc[u] = "except" /\ exc[u] = "RetryError"
                                /\ tpc'[u] # "except")
                => /\ Len(result_queue') = Len(result_queue) + 1
                   /\ result_queue'[Len(result_queue')].kind = "ERROR"
                   /\ result_queue'[Len(result_queue')].url = u
      ]_vars

C8_Witness ==
    \E u \in Submitted :
        /\ variant \in ThreadVariants
        /\ tpc[u] = "except"
        /\ exc[u] = "RetryError"
        /\ attempts[u] = 0

(* C9: analyze_page of the asyncio engine retries a failing fetch up to 3 *)
(* total attempts: a URL is given up (logged as failed, analysis ended)    *)
(* only after 3 failed attempts.                                           *)
C9_AsyncRetry ==
    variant = "main" =>
        \A u \in URLs :
            (u \in error_log /\ analysis_task[u] = "done") => attempts[u] = 3

(* C10: a report or VendorProfile is produced only by a fully drained run: *)
(* when the report, the PDF summary or the profile exists, every analyze   *)
(* thread or task of the run has terminated.                               *)
C10_DrainedBeforeReport ==
    (report_made \/ profile.made) =>
        /\ \A u \in Submitted : tpc[u] \in {"dead", "done"}
        /\ \A u \in URLs : tpc[u] \in {"idle", "dead", "done"}
        /\ \A u \in URLs : analysis_task[u] \in {"none", "done"}
        /\ \A u \in URLs : pdf_task[u] \in {"none", "done"}

C10_Witness ==
    /\ report_made \/ profile.made
    /\ total_links > MAX_THREADS

DoneCount ==
    Cardinality({i \in 1..Len(result_queue) : result_queue[i].kind = "DONE"})

(* C11: every started run of the thread-based engine eventually puts DONE *)
(* on result_queue, on the success path and on every failure path; there   *)
(* is never a second DONE, and DONE is the last item the run enqueues.     *)
C11_DoneOnceAndLast ==
    /\ [](variant \in ThreadVariants =>
            /\ DoneCount <= 1
            /\ DoneCount = 1 =>
                  result_queue[Len(result_queue)].kind = "DONE")
    /\ (variant \in ThreadVariants) ~> (DoneCount = 1)

C11_Witness ==
    /\ variant \in ThreadVariants
    /\ DoneCount = 1
    /\ Enqueued("FAILED")
    /\ Enqueued("SUMMARY")
    /\ ErrorRecords >= 1
    /\ total_links > MAX_THREADS

(* an analyze thread is inside a `with lock:` block / acquire-release pair *)
InMutation(u) == tpc[u] \in {"risk_cs", "clean_cs", "progress_cs"}

(* C12: in the thread-based engine flagged_links, clean_links,             *)
(* progress_count and script.py's risk_count / clean_count change only in  *)
(* a step of the thread that holds the lock, at most one analyze thread is *)
(* inside a mutation at a time, no increment is lost, and after the joins  *)
(* progress_count = total_links.                                           *)
C12_MutationsUnderLock ==
    /\ [](variant \in ThreadVariants =>
            /\ Cardinality({u \in URLs : InMutation(u)}) <= 1
            /\ \A u \in URLs : InMutation(u) => lock = u
            /\ progress_count = Cardinality({u \in URLs : tpc[u] = "dead"})
            /\ variant = "script" =>
                  /\ pdf_count.risk = Len(flagged_links)
                  /\ pdf_count.clean = Len(clean_links)
            /\ AfterJoins => progress_count = total_links)
    /\ [][(variant \in ThreadVariants
            /\ <<flagged_links, clean_links, progress_count, pdf_count>>
                 # <<flagged_links', clean_links', progress_count', pdf_count'>>)
           => (lock # 0 /\ InMutation(lock))]_vars

C12_Witness ==
    /\ variant = "script"
    /\ AfterJoins
    /\ total_links > MAX_THREADS
    /\ progress_count = total_links
    /\ Len(flagged_links) >= 1
    /\ Len(clean_links) >= 1

(* C13: _calculate_overall_risk_score returns 0, without a division by    *)
(* zero, when total_pages = 0 or risk_findings is empty, and               *)
(* _determine_risk_level(0, 0) is the MINIMAL level.                       *)
C13_ZeroDivisionSafe ==
    /\ (overall_risk_score # NoScore
           /\ (total_pages = 0 \/ risk_list = <<>>))
          => overall_risk_score = Rat(0, 1)
    /\ (risk_level # "unset" /\ overall_risk_score = Rat(0, 1)
           /\ Len(risk_list) = 0)
          => risk_level = "MINIMAL RISK"

C13_Witness ==
    /\ total_pages = 0
    /\ risk_list = <<>>
    /\ overall_risk_score = Rat(0, 1)
    /\ risk_level = "MINIMAL RISK"

(* C14: a cse.py run whose search yields zero unique URLs ends without    *)
(* any exception: the report is generated and written, and the run ends    *)
(* with DONE and no failure message.                                       *)
C14_EmptyRunSavesReport ==
    (variant = "cse" /\ wpc = "done" /\ Enqueued("COLLECTED")
                    /\ total_links = 0)
        => /\ \A u \in URLs : tpc[u] = "idle"
           /\ report_made
           /\ Enqueued("SAVED")
           /\ ~Enqueued("FAILED")

(* abs(company_pos - keyword_pos) in context c *)
distance(c, keyword_lower) ==
    abs(find(c, lower(company_name), 0) - find(c, keyword_lower, 0))

keywords_present(c) ==
    {i \in DOMAIN risk_keywords : contains(c, risk_keywords_lower[i])}

(* c2 is c1 with a keyword nearer to the company mention, all else equal *)
Closer(c1, c2) ==
    /\ contains(c1, lower(company_name))
    /\ contains(c2, lower(company_name))
    /\ keywords_present(c1) = keywords_present(c2)
    /\ \A i \in keywords_present(c1) :
          distance(c2, risk_keywords_lower[i])
              <= distance(c1, risk_keywords_lower[i])
    /\ \E i \in keywords_present(c1) :
          distance(c2, risk_keywords_lower[i])
              < distance(c1, risk_keywords_lower[i])

IncrementTenths(d) ==
    IF d < 50 THEN 10 ELSE IF d < 100 THEN 7 ELSE IF d < 200 THEN 4 ELSE 0

ExpectedCategory(c) ==
    LET Occurs(i) ==
            \E k \in Range(categories[i].keywords) : contains(c, lower(k))
    IN  IF \E i \in DOMAIN categories : Occurs(i)
        THEN categories[CHOOSE i \in DOMAIN categories :
                            Occurs(i) /\ \A j \in 1..(i - 1) : ~Occurs(j)
                       ].category
        ELSE "General Risk"

(* C20: the category of a risk finding is the first of Financial Crime,   *)
(* Legal Issues, Regulatory, Operational, Reputational one of whose        *)
(* keywords occurs in the context, and General Risk exactly when no        *)
(* category keyword occurs.                                                *)
C20_CategoryFirstMatch ==
    risk_category # "unset" =>
        risk_category = ExpectedCategory(Whole(context))

(* the text holds "Acme Corp was convicted of fraud " *)
HasConvictedOfFraud ==
    \E i \in 1..(Len(text) - 1) :
        /\ text[i] = "Acme Corp "
        /\ text[i + 1] = "was convicted of fraud "

(* C15: with the default threshold, a call on a text that contains          *)
(* "Acme Corp was convicted of fraud" returns a risk finding of confidence  *)
(* >= 0.75 whose category is "Financial Crime" or "Legal Issues".           *)
C15_ConvictedOfFraudIsRisk ==
    (apc = "return" /\ nlp /\ threshold = min_confidence_score
        /\ HasConvictedOfFraud)
    => /\ finding.is_risk
       /\ finding.confidence_score >= min_confidence_score
       /\ finding.risk_category \in {"Financial Crime", "Legal Issues"}

(* C16: a scored context makes the call return a risk finding exactly when  *)
(* its score is at least config.min_confidence_score: a score equal to the  *)
(* threshold does, any score below it does not.                             *)
C16_ThresholdInclusive ==
    /\ \A i \in 1..Len(scores) :
          (scores[i] >= threshold)
          <=> /\ i = Len(scores)
              /\ finding.is_risk
              /\ finding.confidence_score = scores[i]
    /\ (apc = "return" /\ nlp)
       => (finding.is_risk <=> \E i \in 1..Len(scores) : scores[i] >= threshold)

(* a finding whose score is exactly the threshold, returned after a context *)
(* that scored below the threshold was passed over                          *)
C16_Witness ==
    /\ apc = "return"
    /\ finding.is_risk
    /\ finding.confidence_score = threshold
    /\ \E i \in 1..(Len(scores) - 1) : scores[i] < threshold

(* C17: the contexts are scored in the order of the mentions; every context *)
(* scored before the last one is below the threshold, the finding is built  *)
(* from the first context that clears it, and no later context is scored.   *)
C17_FirstMatchWins ==
    (apc \in {"scan", "return"})
    => /\ \A i \in 1..(Len(scores) - 1) : scores[i] < threshold
       /\ Len(scores) <= Len(mentions)
       /\ finding.is_risk
          => /\ scores # <<>>
             /\ scores[Len(scores)] >= threshold
             /\ apc = "return"
             /\ finding.confidence_score = scores[Len(scores)]
             /\ finding.context = strip(mentions[Len(scores)].context)
             /\ finding.risk_category =
                    _classify_risk_category(mentions[Len(scores)].context)

(* a finding is returned while a later mention, never scored, has a context *)
(* of strictly higher score                                                 *)
C17_Witness ==
    /\ apc = "return"
    /\ finding.is_risk
    /\ \E j \in (Len(scores) + 1)..Len(mentions) :
          _calculate_risk_score(mentions[j].context, company_name)
              > finding.confidence_score

(* C19: two calls of analyze_risk_context on the same text, company name,   *)
(* corpus and threshold return the same value in every field.               *)
C19_SameInputsSameFinding ==
    Len(results) >= 2 => results[1] = results[2]

(* the score is at least h hundredths *)
ScoreAtLeast(h) == 100 * overall_risk_score.num >= h * overall_risk_score.den

(* C21: the level is HIGH iff score >= 0.8 or count >= 10; else MEDIUM iff  *)
(* score >= 0.6 or count >= 5; else LOW iff score >= 0.3 or count >= 2;     *)
(* else MINIMAL.                                                            *)
C21_RiskLevelTable ==
    risk_level # "unset"
    => LET high == ScoreAtLeast(80) \/ finding_count >= 10
           medium == ScoreAtLeast(60) \/ finding_count >= 5
           low == ScoreAtLeast(30) \/ finding_count >= 2
       IN  /\ (risk_level = "HIGH RISK") <=> high
           /\ (risk_level = "MEDIUM RISK") <=> (~high /\ medium)
           /\ (risk_level = "LOW RISK") <=> (~high /\ ~medium /\ low)
           /\ (risk_level = "MINIMAL RISK") <=> (~high /\ ~medium /\ ~low)

(* a score exactly on a boundary with a count below every boundary, and a   *)
(* level decided by the count alone, are both rated                         *)
C21_Witness ==
    /\ risk_level = "HIGH RISK"
    /\ \/ overall_risk_score = Rat(80, 100) /\ finding_count = 0
       \/ overall_risk_score = Rat(0, 100) /\ finding_count = 10

(* h: the number of findings of a high-severity category *)
HighSeverityCount ==
    Cardinality({i \in 1..Len(risk_list) :
        risk_list[i].risk_category
            \in {"Financial Crime", "Legal Issues", "Regulatory"}})

(* (0.6 avg_confidence + 0.4 min(n / pages, 0.5)) * min(1.0 + 0.1 h, 1.5)   *)
(* as a fraction of denominator 10000 n pages, confidences being in         *)
(* hundredths                                                               *)
ExpectedOverall ==
    LET n == Len(risk_list)
        S == sum_confidence(risk_list)
        m10 == IF HighSeverityCount >= 5 THEN 15 ELSE 10 + HighSeverityCount
    IN  IF 2 * n >= total_pages
        THEN Rat((6 * S + 200 * n) * m10 * total_pages,
                 10000 * n * total_pages)
        ELSE Rat((6 * S * total_pages + 400 * n * n) * m10,
                 10000 * n * total_pages)

(* C22: for a non-empty list and total_pages > 0 the score is                *)
(* min(1.0, (0.6 avg_confidence + 0.4 min(n / pages, 0.5)) * m) with         *)
(* m = min(1.0 + 0.1 h, 1.5), and it lies in [0, 1].                        *)
C22_OverallScoreFormula ==
    (overall_risk_score # NoScore /\ risk_list # <<>> /\ total_pages > 0)
    => /\ overall_risk_score.den > 0
       /\ 0 <= overall_risk_score.num
       /\ overall_risk_score.num <= overall_risk_score.den
       /\ IF ExpectedOverall.num >= ExpectedOverall.den
          THEN overall_risk_score.num = overall_risk_score.den
          ELSE overall_risk_score = ExpectedOverall

(* more than five high-severity findings, so that the multiplier is held at *)
(* 1.5, and a score that stays below the cap 1.0                            *)
C22_Witness ==
    /\ overall_risk_score # NoScore
    /\ total_pages > 0
    /\ HighSeverityCount > 5
    /\ overall_risk_score.num < overall_risk_score.den

(* the links of the pages that answered, in page order *)
AnsweredLinks(upto) ==
    concat([k \in 1..upto |->
               IF provider[k].ok THEN links(provider[k].items) ELSE <<>>])

FirstIndex(list, x) ==
    CHOOSE i \in 1..Len(list) :
        list[i] = x /\ \A j \in 1..(i - 1) : list[j] # x

(* C23: the list handed to analysis has no repeated URL, holds every        *)
(* distinct URL of the pages searched exactly once, in first-seen order,    *)
(* and is not longer than the input; URLs are compared as exact strings.    *)
C23_Deduplication ==
    spc = "analysis"
    => LET input == AnsweredLinks(page)
       IN  /\ \A i, j \in 1..Len(unique_urls) :
                 unique_urls[i] = unique_urls[j] => i = j
           /\ Range(unique_urls) = Range(input)
           /\ \A i, j \in 1..Len(unique_urls) :
                 i < j => FirstIndex(input, unique_urls[i])
                              < FirstIndex(input, unique_urls[j])
           /\ Len(unique_urls) <= Len(input)

(* pages [[a, b], [b, B]] give [a, b, B] *)
C23_Witness ==
    /\ spc = "analysis"
    /\ all_urls = <<"http://x/a", "http://x/b", "http://x/b", "http://x/B">>
    /\ unique_urls = <<"http://x/a", "http://x/b", "http://x/B">>

(* C24: in every variant, when the search call of a page fails the page     *)
(* gives no URL, the other pages are still queried, and the run goes on to  *)
(* analysis with the URLs of the pages that answered.                       *)
C24_SearchErrorsPageLocal ==
    (spc \in {"analysis", "failed"}
        /\ \E k \in 1..page : ~provider[k].ok)
    => /\ spc = "analysis"
       /\ page = MAX_GOOGLE_PAGES
       /\ unique_urls = dedup(AnsweredLinks(MAX_GOOGLE_PAGES))

(* some mention of some variation has a context that clears the threshold *)
SomeContextClears ==
    \E v \in _generate_company_variations(company_name) :
        \E k \in DOMAIN mentions_of(text, v) :
            _calculate_risk_score(mentions_of(text, v)[k].context,
                                  company_name) >= threshold

(* C25: the call returns a risk finding iff some mention context scores at  *)
(* least the threshold, whether or not self.nlp is available.               *)
C25_DecisionIndependentOfNlp ==
    apc = "return" => (finding.is_risk <=> SomeContextClears)

(* the terminal items of a main.py run on result_queue *)
TerminalItems ==
    {i \in 1..Len(result_queue) :
        result_queue[i].kind \in {"COMPLETED", "ERROR"}}

(* C26: a run of _run_analysis_worker never has more than one terminal     *)
(* item on result_queue; the run ends, and then it has exactly one: either  *)
(* COMPLETED with the whole VendorProfile that conduct_due_diligence        *)
(* returned, or ERROR with no profile.                                      *)
C26_OneTerminalItem ==
    /\ [](variant = "main"
            => /\ Cardinality(TerminalItems) <= 1
               /\ wpc = "closed" => Cardinality(TerminalItems) = 1
               /\ \A i \in TerminalItems :
                     IF result_queue[i].kind = "COMPLETED"
                     THEN /\ result_queue[i].profile.made
                          /\ result_queue[i].profile = profile
                          /\ profile.total_pages_analyzed = total_links
                     ELSE "profile" \notin DOMAIN result_queue[i])
    /\ (variant = "main") ~> (wpc = "closed")

(* a run that had counted pages and then failed ends with ERROR alone *)
C26_Witness ==
    /\ variant = "main"
    /\ wpc = "closed"
    /\ clean_pages + Len(risk_findings) > 0
    /\ \E i \in TerminalItems : result_queue[i].kind = "ERROR"

(* a step of the pipeline of url v: its task, its analysis or its PDF *)
PipelineStep(v) ==
    \/ RunTask(v)
    \/ BeginAnalyze(v)
    \/ EndAnalyze(v)
    \/ BeginPdf(v)
    \/ EndPdf(v)
    \/ FinishTask(v)

(* the pipeline of url v has been created and has not finished *)
PipelineOpen(v) == tpc[v] \in {"created", "gather"}

(* C27: while the page fetch of one URL is outstanding, the pipelines of    *)
(* the other URLs that are not finished can go on: some step of another     *)
(* URL's pipeline is possible.                                              *)
C27_PipelinesIndependent ==
    \A u \in URLs :
        (variant = "main" /\ analysis_task[u] = "fetching"
            /\ \E v \in URLs \ {u} : PipelineOpen(v))
        => \E v \in URLs \ {u} : ENABLED PipelineStep(v)

(* the text holds a mention of some variation of the company name *)
HasMention ==
    \E v \in _generate_company_variations(company_name) :
        mentions_of(text, v) # <<>>

(* C28: when the text holds no mention of any variation, or no mention      *)
(* context scores at least the threshold, the call returns None and the     *)
(* page is counted in clean_pages, not in risk_findings and not as an       *)
(* error.                                                                   *)
C28_NoMentionOrBelowIsClean ==
    /\ []((apc \in {"return", "tally"} /\ (~HasMention \/ ~SomeContextClears))
            => IF apc = "return" THEN finding = NoFinding
               ELSE results[Len(results)] = NoFinding)
    /\ [][(apc = "tally" /\ (~HasMention \/ ~SomeContextClears))
            => /\ clean_pages' = clean_pages + 1
               /\ risk_findings' = risk_findings
               /\ error_log' = error_log]_vars

(* a page with a mention whose contexts all score below the threshold has   *)
(* been counted as clean                                                    *)
C28_Witness ==
    /\ nlp
    /\ apc = "idle"
    /\ clean_pages = Len(results)
    /\ clean_pages > 0
    /\ HasMention
    /\ ~SomeContextClears

(* urls whose analysis has begun and that have no ERROR message *)
WithoutError ==
    {u \in Submitted :
        tpc[u] # "idle" /\ Count(result_queue, "ERROR", u) = 0}

(* C29: in script.py a URL for which an ERROR message was put is neither in *)
(* flagged_links nor in clean_links, and is not counted in the PDF          *)
(* generator's risk_count / clean_count, also when add_risk_finding or      *)
(* add_clean_finding raised.                                                *)
C29_ErrorExcludesTally ==
    variant = "script"
    => /\ \A u \in Submitted :
             Count(result_queue, "ERROR", u) >= 1
             => /\ Occurrences(flagged_links, u) = 0
                /\ Occurrences(clean_links, u) = 0
       /\ pdf_count.risk + pdf_count.clean <= Cardinality(WithoutError)

(* C30: every corpus keyword that occurs in a scored context within 200     *)
(* characters of the mention that produced the context gives a positive     *)
(* proximity increment, whichever variation matched the mention.            *)
C30_KeywordNearMentionCounts ==
    (apc \in {"scan", "return"} /\ scores # <<>>)
    => LET m == mentions[Len(scores)]
           mention_pos == m.start - m.context.lo
       IN  \A i \in 1..Len(risk_keywords_lower) :
               (\E q \in occurrences(m.context, risk_keywords_lower[i]) :
                    abs(q - mention_pos) < 200)
               => keyword_increment(m.context, lower(company_name),
                                    risk_keywords_lower[i]) > 0

(* the strong indicators that occur in the context *)
StrongPresent ==
    {i \in 1..Len(strong_indicators) :
        contains(Whole(context), strong_indicators[i])}

(* the proximity sum of the context over the corpus, in tenths *)
ProximitySum ==
    risk_indicators(Whole(context), lower(company_name), Len(risk_keywords))

(* C31: the confidence of every context lies in [0, 1]; the normalized      *)
(* proximity sum is capped at 1.0 before the boost, and the boost of 0.2    *)
(* per strong indicator never takes the result above 1.0.                   *)
C31_ConfidenceInUnitInterval ==
    risk_score # 0 - 1
    => /\ 0 <= risk_score
       /\ risk_score <= 100
       /\ risk_score = Min(Min(2 * ProximitySum, 100)
                               + 20 * Cardinality(StrongPresent), 100)

(* more than five keywords next to the name, so that the normalized sum is  *)
(* above 1.0 before its cap, and a strong indicator on top                  *)
C31_Witness ==
    /\ risk_score = 100
    /\ 2 * ProximitySum > 100
    /\ StrongPresent # {}

(* the category-table keywords that occur in the context in any letter case *)
TableKeywordsPresent ==
    {k \in UNION {Range(categories[i].keywords) : i \in DOMAIN categories} :
        contains(Whole(context), lower(k))}

(* C32: a context whose only category keyword is "SEC" or "OFAC", in any    *)
(* letter case, is classified "Regulatory".                                 *)
C32_AcronymSelectsRegulatory ==
    (risk_category # "unset"
        /\ TableKeywordsPresent # {}
        /\ TableKeywordsPresent \subseteq {"SEC", "OFAC"})
    => risk_category = "Regulatory"

(* the batch of url u, URLs being numbered in list order *)
Batch(u) == (u - 1) \div MAX_THREADS

(* C33: the thread engine starts the URLs in list order, in consecutive     *)
(* batches of MAX_THREADS, and starts no thread of a batch before every     *)
(* thread of the earlier batches has terminated.                            *)
C33_BatchBarrier ==
    variant \in ThreadVariants
    => /\ \A u \in Submitted : (tpc[u] # "idle") <=> (u <= idx)
       /\ \A u, v \in Submitted :
             (Batch(v) < Batch(u) /\ tpc[u] # "idle") => tpc[v] = "dead"

(* one URL of the first batch is still being analysed, another one of that  *)
(* batch has terminated, and the next URL of the list has not been started  *)
C33_Witness ==
    /\ variant \in ThreadVariants
    /\ wpc = "join"
    /\ total_links > MAX_THREADS
    /\ tpc[MAX_THREADS + 1] = "idle"
    /\ \E u, v \in 1..MAX_THREADS :
          tpc[u] = "dead" /\ tpc[v] \notin {"idle", "dead"}

(* C34: in every profile conduct_due_diligence returns, the risk level is   *)
(* MINIMAL RISK exactly when there is no risk finding: without findings the *)
(* score is 0, with a finding the score is at least 0.3.                    *)
C34_MinimalIffNoFinding ==
    profile.made
    => /\ (profile.risk_level = "MINIMAL RISK")
              <=> (profile.risk_findings = <<>>)
       /\ profile.risk_findings = <<>>
              => profile.overall_risk_score = Rat(0, 1)
       /\ profile.risk_findings # <<>>
              => AtLeastTenths(profile.overall_risk_score, 3)

(* a profile with a single finding, rated LOW RISK by its score alone *)
C34_Witness ==
    /\ profile.made
    /\ Len(profile.risk_findings) = 1
    /\ profile.total_pages_analyzed > 1
    /\ profile.risk_level = "LOW RISK"

(* analyze threads that have not terminated, per-URL tasks that have not   *)
(* finished                                                                 *)
StillAnalysing == {u \in URLs : tpc[u] \notin {"idle", "dead", "done"}}

(* C35: at most one run is active.  While is_running is true no worker is   *)
(* started; is_running goes back to false only as the GUI takes the run's   *)
(* terminal item from the queue; and whenever is_running is false no        *)
(* analyze thread or per-URL task of the last run is still alive, so a new  *)
(* worker never runs next to an old one.                                    *)
C35_OneActiveRun ==
    /\ [](~is_running => StillAnalysing = {} /\ ready = <<>> /\ loop_busy = 0)
    /\ [][/\ is_running => (runs' = runs /\ (wpc # "search" => wpc' # "search"))
          /\ (is_running /\ ~is_running')
                 => /\ gui_read' = gui_read + 1
                    /\ result_queue[gui_read'].kind \in TerminalKinds(variant)
                    /\ UNCHANGED <<wpc, tpc, threadVars, asyncVars>>]_vars

(* a second run is under way, started after the first one's terminal item *)
C35_Witness ==
    /\ runs = 2
    /\ is_running
    /\ wpc \notin {"search", "unstarted"}

(* the per-URL result lines and the summary lines of the queue *)
ResultLines ==
    {i \in 1..Len(result_queue) :
        result_queue[i].kind \in {"RISK", "CLEAN", "ERROR", "SUMMARY"}}

(* C36: in production_vendor_dd.py the file written by _save_report holds   *)
(* every per-URL result line and every summary line the worker had put on   *)
(* result_queue before it called _save_report, however the worker and the   *)
(* GUI's polling interleave.                                                *)
C36_ReportHoldsEveryLine ==
    (variant = "prod" /\ report_file.written)
    => \A i \in ResultLines :
          \E j \in 1..Len(report_file.text) :
             report_file.text[j] = result_queue[i]

(* C37: every mention extract_company_mentions returns has                  *)
(* 0 <= start <= end <= len(text), and its context is the slice of text     *)
(* from max(0, start - 150) to min(len(text), end + 150), which contains    *)
(* the mention.                                                             *)
C37_MentionsWithinText ==
    \A i \in 1..Len(char_mentions) :
        LET m == char_mentions[i]
            lo == Max(0, m.start - context_window_size)
            hi == Min(Len(page_text), m.end + context_window_size)
        IN  /\ 0 <= m.start
            /\ m.start <= m.end
            /\ m.end <= Len(page_text)
            /\ m.context = slice(page_text, lo, hi)
            /\ lo <= m.start /\ m.end <= hi

=============================================================================
